---------------------------- MODULE Spec2Model ----------------------------
(***************************************************************************)
(* A model of the TogoMQ Go SDK client: the error taxonomy, the message    *)
(* and subscribe-option values, and the Client operations Sub (with its    *)
(* background pump goroutine), Pub and Close, together with the transport  *)
(* stream, the consumer and the producer they interact with.               *)
(***************************************************************************)
EXTENDS Integers, Sequences, FiniteSets, TLC

VARIABLES
    subs,            \* ids of the Sub calls made on the client
    connClosed,      \* Client.Close has torn down the connection
    subOpts,         \* the options Sub was called with
    subRet,          \* what Sub returned to its caller
    subRpc,          \* the SubMessage RPC Sub issued (context metadata, request)
    frames,          \* frames the server emitted on the stream, in order
    streamEnd,       \* how the server ended the stream (Nil: still open)
    abortErr,        \* the transport tore the stream down (Nil: it did not)
    pc,              \* position of the pump goroutine
    nrecv,           \* messageCount: frames Recv handed to the pump
    recvErr,         \* err of the last Recv
    pending,         \* msg: the message the pump holds for hand-off
    exit,            \* the return statement the pump left its loop by
    consumerWaiting, \* the consumer is blocked in <-messageChan
    delivered,       \* messages the consumer received on messageChan
    ctxCancelled,    \* ctx.Done() of the call is closed
    errBuf,          \* buffer of errorChan
    errSent,         \* every value ever sent on errorChan
    errSeen,         \* values the consumer received from errorChan
    errClosed,       \* number of close(errorChan) executed
    msgClosed,       \* number of close(messageChan) executed
    pubPc,           \* position of the Pub call
    inChan,          \* buffer of the input channel of Pub
    inClosed,        \* the producer closed the input channel
    drawn,           \* messages Pub drew from the input channel
    pubRpc,          \* the PubMessage RPC Pub issued
    sent,            \* requests Pub sent on the stream
    halfClosed,      \* CloseAndRecv was called
    pubRet,          \* what Pub returned
    pubOps,          \* the transport operations Pub performed, with their results
    pubBatch,        \* the slice the publish call was given, and by which entry
    pubCtxCancelled, \* ctx.Done() of the Pub call is closed
    client,          \* the Client value: its config and its connection
    newArg,          \* the config NewClient was called with
    newRet,          \* what NewClient returned
    dials,           \* the grpc.NewClient calls made
    countLog,        \* the CountMessages calls made: topic, RPC issued, result
    cfgHeap,         \* the Config objects allocated, by address
    cfgCalls,        \* the DefaultConfig and NewConfig calls made, with the
                     \* address each returned and what its caller did to it
    valRet,          \* what the last Validate call returned, and for which config
    wrapRet,         \* the last WrapGRPCError call: arguments and result
    strRet,          \* the last TogoMQError.Error call: receiver and result
    objHeap,         \* the Message and SubscribeOptions objects, by address
    objCalls,        \* the constructor and builder calls made: receiver,
                     \* argument, address returned, and the heap before
    convRet          \* the wire conversion just made, if it is the last call:
                     \* input, heap before and after, result

subVars == <<subs, connClosed, subOpts, subRet, subRpc, frames, streamEnd, abortErr, pc,
             nrecv, recvErr, pending, exit, consumerWaiting, delivered,
             ctxCancelled, errBuf, errSent, errSeen, errClosed, msgClosed>>

pubVars == <<pubPc, inChan, inClosed, drawn, pubRpc, sent, halfClosed, pubRet,
             pubOps, pubBatch, pubCtxCancelled>>

cliVars == <<client, newArg, newRet, dials, countLog>>

cfgVars == <<cfgHeap, cfgCalls, valRet, wrapRet>>

msgVars == <<strRet, objHeap, objCalls, convRet>>

vars == <<subVars, pubVars, cliVars, cfgVars, msgVars>>

-----------------------------------------------------------------------------
(* Bounds of the model *)

MaxFrames == 2

MaxMsgs == 3

-----------------------------------------------------------------------------
(* Error taxonomy *)

ErrCodeConnection == "CONNECTION_ERROR"

ErrCodeAuth == "AUTH_ERROR"

ErrCodeValidation == "VALIDATION_ERROR"

ErrCodePublish == "PUBLISH_ERROR"

ErrCodeSubscribe == "SUBSCRIBE_ERROR"

ErrCodeStream == "STREAM_ERROR"

ErrCodeConfiguration == "CONFIG_ERROR"

\* the nil error
Nil == [kind |-> "nil"]

\* io.EOF, a sentinel compared by identity
EOF == [kind |-> "sentinel", msg |-> "EOF"]

\* an error carrying a gRPC status
StatusErr(code, msg) == [kind |-> "status", code |-> code, msg |-> msg]

\* an error that carries no gRPC status
PlainErr(msg) == [kind |-> "plain", msg |-> msg]

\* a constructor that drops the underlying error
NewErrorNoCause(code, message, err) ==
    [kind |-> "togomq", Code |-> code, Message |-> message, Err |-> Nil]

NewError(code, message, err) ==
    [kind |-> "togomq", Code |-> code, Message |-> message, Err |-> err]

\* status.FromError reports ok only for an error that carries a status
\* a string form that leaves the underlying error out
ErrorWithoutUnderlying(e) == "[" \o e.Code \o "] " \o e.Message

\* TogoMQError.Error: fmt.Sprintf("[%s] %s: %v", e.Code, e.Message, e.Err) if
\* e.Err != nil, else fmt.Sprintf("[%s] %s", e.Code, e.Message); %v of an error
\* is its Error() text
RECURSIVE Error(_)
Error(e) ==
    IF e.kind = "togomq"
    THEN IF e.Err # Nil
         THEN "[" \o e.Code \o "] " \o e.Message \o ": " \o Error(e.Err)
         ELSE "[" \o e.Code \o "] " \o e.Message
    ELSE IF e.kind = "status"
    THEN "rpc error: code = " \o e.code \o " desc = " \o e.msg
    ELSE e.msg

HasStatus(err) == err.kind = "status"

\* a translation whose default category is the publish one
WrapCodeDefaultPublish(c) ==
    CASE c = "Unauthenticated" -> ErrCodeAuth
      [] c = "InvalidArgument" -> ErrCodeValidation
      [] c = "Unavailable"     -> ErrCodeConnection
      [] OTHER                 -> ErrCodePublish

WrapCode(c) ==
    CASE c = "Unauthenticated" -> ErrCodeAuth
      [] c = "InvalidArgument" -> ErrCodeValidation
      [] c = "Unavailable"     -> ErrCodeConnection
      [] OTHER                 -> ErrCodeStream

WrapGRPCError(err, context) ==
    IF err = Nil THEN Nil
    ELSE IF ~HasStatus(err) THEN NewError(ErrCodeStream, context, err)
    ELSE NewError(WrapCode(err.code), context \o ": " \o err.msg, err)

-----------------------------------------------------------------------------
(* Messages and subscribe options *)

\* a Go map value: nil, or a set of key/value pairs
MapNil == [nil |-> TRUE, kv |-> {}]

MapOf(kv) == [nil |-> FALSE, kv |-> kv]

NoMsg == [kind |-> "none"]

\* a constructor that leaves Variables unset
NewMessageNilVariables(topic, body) ==
    [Topic |-> topic, Body |-> body, Variables |-> MapNil,
     Postpone |-> 0, Retention |-> 0, UUID |-> ""]

NewMessage(topic, body) ==
    [Topic |-> topic, Body |-> body, Variables |-> MapOf({}),
     Postpone |-> 0, Retention |-> 0, UUID |-> ""]

\* a conversion that leaves the delay out
toPubRequestNoPostpone(m) ==
    [Topic |-> m.Topic, Body |-> m.Body, Variables |-> m.Variables,
     Postpone |-> 0, Retention |-> m.Retention]

toPubRequest(m) ==
    [Topic |-> m.Topic, Body |-> m.Body, Variables |-> m.Variables,
     Postpone |-> m.Postpone, Retention |-> m.Retention]

fromSubResponse(resp) ==
    [Topic |-> resp.Topic, Body |-> resp.Body, Variables |-> resp.Variables,
     Postpone |-> 0, Retention |-> 0, UUID |-> resp.Uuid]

NewSubscribeOptions(topic) == [Topic |-> topic, Batch |-> 0, SpeedPerSec |-> 0]

WithBatch(o, batch) == [o EXCEPT !.Batch = batch]

WithSpeedPerSec(o, speed) == [o EXCEPT !.SpeedPerSec = speed]

toSubRequest(o) ==
    [Topic |-> o.Topic, Batch |-> o.Batch, SpeedPerSec |-> o.SpeedPerSec]

-----------------------------------------------------------------------------
(* The client *)

\* c.config.Token of the constructed client
Token == "secret-token"

\* a caller's context: its outgoing metadata
Background == [md |-> {}]

\* a context passed on as it came, without metadata
contextWithoutAuth(ctx) == ctx

contextWithAuth(ctx) == [ctx EXCEPT !.md = {<<"authorization", client.config.Token>>}]

NoRpc == [method |-> "none"]

NotReturned == [returned |-> FALSE]

\* the call did not return: it panicked on a nil pointer dereference
Panicked == [panic |-> TRUE]

\* a nil *Message
NilMessage == [nil |-> "Message"]

\* a nil *SubscribeOptions
NilOptions == [nil |-> "SubscribeOptions"]

NoOpts == [kind |-> "none"]


NilChan == [chan |-> "nil"]

MessageChan(s) == [chan |-> "messageChan", of |-> s]

ErrorChan(s) == [chan |-> "errorChan", of |-> s]

\* make(chan error, 1)
ErrChanCap == 1

\* the ids a Sub call can have
SubIds == {1, 2}

Upd(f, s, v) == [f EXCEPT ![s] = v]

-----------------------------------------------------------------------------
(* Inputs and the transport's outcomes *)

SubOptsInputs ==
    {NewSubscribeOptions(""), NewSubscribeOptions("orders.*"),
     WithBatch(NewSubscribeOptions("*"), 10)}

\* failures a transport operation can report
TransportFailures ==
    {StatusErr("Unavailable", "connection refused"),
     StatusErr("Unauthenticated", "invalid token"),
     PlainErr("unexpected EOF")}

\* the error of a stream torn down by the cancelled context or the closed connection
AbortError(cancelled) ==
    IF cancelled THEN StatusErr("Canceled", "context canceled")
    ELSE StatusErr("Canceled", "grpc: the client connection is closing")

\* the unique identifiers the server assigns, by position in the stream
Uuids == <<"uuid-1", "uuid-2", "uuid-3", "uuid-4">>

\* the frame the server emits as the i-th of a stream
FrameInputs(i) ==
    {[Topic |-> "orders", Uuid |-> Uuids[i], Body |-> <<i>>, Variables |-> MapNil],
     [Topic |-> "events", Uuid |-> Uuids[i], Body |-> <<>>,
      Variables |-> MapOf({<<"priority", "high">>})]}

-----------------------------------------------------------------------------
(* Sub: the call *)

\* a Sub that opens the stream before it checks the topic
SubCallValidateLate(s, opts, openErr) ==
    /\ s \in subs
    /\ ~connClosed
    /\ subRet[s] = NotReturned
    /\ subOpts' = Upd(subOpts, s, opts)
    /\ subRpc' = Upd(subRpc, s,
           [method |-> "SubMessage", ctx |-> contextWithAuth(Background),
            req |-> toSubRequest(opts)])
    /\ IF openErr # Nil
       THEN /\ subRet' = Upd(subRet, s,
                   [returned |-> TRUE, messageChan |-> NilChan, errorChan |-> NilChan,
                    err |-> WrapGRPCError(openErr, "failed to create subscribe stream")])
            /\ UNCHANGED pc
       ELSE IF opts.Topic = ""
       THEN /\ subRet' = Upd(subRet, s,
                   [returned |-> TRUE, messageChan |-> NilChan, errorChan |-> NilChan,
                    err |-> NewError(ErrCodeValidation,
                                     "topic is required for subscription", Nil)])
            /\ UNCHANGED pc
       ELSE /\ subRet' = Upd(subRet, s,
                   [returned |-> TRUE, messageChan |-> MessageChan(s),
                    errorChan |-> ErrorChan(s), err |-> Nil])
            /\ pc' = Upd(pc, s, "recv")
    /\ UNCHANGED <<subs, connClosed, frames, streamEnd, abortErr, nrecv, recvErr,
                   pending, exit, consumerWaiting, delivered, ctxCancelled, errBuf,
                   errSent, errSeen, errClosed, msgClosed>>
    /\ UNCHANGED <<pubVars, cliVars, cfgVars, msgVars>>

SubCall(s, opts, openErr) ==
    /\ s \in subs
    /\ ~connClosed
    /\ subRet[s] = NotReturned
    /\ subOpts' = Upd(subOpts, s, opts)
    /\ IF opts = NilOptions
       THEN /\ subRet' = Upd(subRet, s, Panicked)
            /\ UNCHANGED <<subRpc, pc>>
       ELSE
       IF opts.Topic = ""
       THEN /\ subRet' = Upd(subRet, s,
                   [returned |-> TRUE, messageChan |-> NilChan, errorChan |-> NilChan,
                    err |-> NewError(ErrCodeValidation,
                                     "topic is required for subscription", Nil)])
            /\ UNCHANGED <<subRpc, pc>>
       ELSE /\ subRpc' = Upd(subRpc, s,
                   [method |-> "SubMessage", ctx |-> contextWithAuth(Background),
                    req |-> toSubRequest(opts)])
            /\ IF openErr # Nil
               THEN /\ subRet' = Upd(subRet, s,
                           [returned |-> TRUE, messageChan |-> NilChan,
                            errorChan |-> NilChan,
                            err |-> WrapGRPCError(openErr,
                                        "failed to create subscribe stream")])
                    /\ UNCHANGED pc
               ELSE /\ subRet' = Upd(subRet, s,
                           [returned |-> TRUE, messageChan |-> MessageChan(s),
                            errorChan |-> ErrorChan(s), err |-> Nil])
                    /\ pc' = Upd(pc, s, "recv")
    /\ UNCHANGED <<subs, connClosed, frames, streamEnd, abortErr, nrecv, recvErr,
                   pending, exit, consumerWaiting, delivered, ctxCancelled, errBuf,
                   errSent, errSeen, errClosed, msgClosed>>
    /\ UNCHANGED <<pubVars, cliVars, cfgVars, msgVars>>

-----------------------------------------------------------------------------
(* Sub: the pump goroutine *)

\* the pump is in its receive loop
InLoop(s) == pc[s] \in {"recv", "select", "parked"}

\* a test that never recognises the end of the stream
IsEOFNever(err) == FALSE

\* err == io.EOF
IsEOF(err) == err = EOF

\* what stream.Recv() returns now, or NoMsg while it blocks
RecvResult(s) ==
    IF abortErr[s] # Nil THEN [resp |-> NoMsg, err |-> abortErr[s]]
    ELSE IF nrecv[s] < Len(frames[s])
         THEN [resp |-> frames[s][nrecv[s] + 1], err |-> Nil]
    ELSE IF streamEnd[s] # Nil THEN [resp |-> NoMsg, err |-> streamEnd[s]]
    ELSE NoMsg

\* resp, err := stream.Recv() and the two tests of err that follow it
Recv(s) ==
    /\ s \in subs
    /\ pc[s] = "recv"
    /\ RecvResult(s) # NoMsg
    /\ LET r == RecvResult(s) IN
       /\ recvErr' = Upd(recvErr, s, r.err)
       /\ IF IsEOF(r.err)
          THEN /\ pc' = Upd(pc, s, "deferErr")
               /\ exit' = Upd(exit, s, "eof")
               /\ UNCHANGED <<nrecv, pending>>
          ELSE IF r.err # Nil
          THEN /\ pc' = Upd(pc, s, "sendErr")
               /\ UNCHANGED <<exit, nrecv, pending>>
          ELSE /\ nrecv' = Upd(nrecv, s, nrecv[s] + 1)
               /\ pending' = Upd(pending, s, fromSubResponse(r.resp))
               /\ pc' = Upd(pc, s, "select")
               /\ UNCHANGED exit
    /\ UNCHANGED <<subs, connClosed, subOpts, subRet, subRpc, frames, streamEnd, abortErr,
                   consumerWaiting, delivered, ctxCancelled, errBuf, errSent,
                   errSeen, errClosed, msgClosed>>
    /\ UNCHANGED <<pubVars, cliVars, cfgVars, msgVars>>

\* the pump sends the untranslated error of Recv
SendErrRaw(s) ==
    /\ s \in subs
    /\ pc[s] = "sendErr"
    /\ Len(errBuf[s]) < ErrChanCap
    /\ errBuf' = Upd(errBuf, s, Append(errBuf[s], recvErr[s]))
    /\ errSent' = Upd(errSent, s, Append(errSent[s], recvErr[s]))
    /\ pc' = Upd(pc, s, "deferErr")
    /\ exit' = Upd(exit, s, "fail")
    /\ UNCHANGED <<subs, connClosed, subOpts, subRet, subRpc, frames, streamEnd,
                   abortErr, nrecv, recvErr, pending, consumerWaiting, delivered,
                   ctxCancelled, errSeen, errClosed, msgClosed>>
    /\ UNCHANGED <<pubVars, cliVars, cfgVars, msgVars>>

\* the pump sends the error and goes on receiving
SendErrAndContinue(s) ==
    /\ s \in subs
    /\ pc[s] = "sendErr"
    /\ Len(errBuf[s]) < ErrChanCap
    /\ LET e == WrapGRPCError(recvErr[s], "failed to receive message") IN
       /\ errBuf' = Upd(errBuf, s, Append(errBuf[s], e))
       /\ errSent' = Upd(errSent, s, Append(errSent[s], e))
    /\ pc' = Upd(pc, s, "recv")
    /\ UNCHANGED <<subs, connClosed, subOpts, subRet, subRpc, frames, streamEnd,
                   abortErr, nrecv, recvErr, pending, exit, consumerWaiting,
                   delivered, ctxCancelled, errSeen, errClosed, msgClosed>>
    /\ UNCHANGED <<pubVars, cliVars, cfgVars, msgVars>>

\* errorChan <- WrapGRPCError(err, ...); return
SendErr(s) ==
    /\ s \in subs
    /\ pc[s] = "sendErr"
    /\ Len(errBuf[s]) < ErrChanCap
    /\ LET e == WrapGRPCError(recvErr[s], "failed to receive message") IN
       /\ errBuf' = Upd(errBuf, s, Append(errBuf[s], e))
       /\ errSent' = Upd(errSent, s, Append(errSent[s], e))
    /\ pc' = Upd(pc, s, "deferErr")
    /\ exit' = Upd(exit, s, "fail")
    /\ UNCHANGED <<subs, connClosed, subOpts, subRet, subRpc, frames, streamEnd, abortErr,
                   nrecv, recvErr, pending, consumerWaiting, delivered,
                   ctxCancelled, errSeen, errClosed, msgClosed>>
    /\ UNCHANGED <<pubVars, cliVars, cfgVars, msgVars>>

\* a select whose send leaves the pump at the select with the message still in hand
SelectEvalResend(s) ==
    /\ s \in subs
    /\ pc[s] = "select"
    /\ \/ /\ consumerWaiting[s]
          /\ delivered' = Upd(delivered, s, Append(delivered[s], pending[s]))
          /\ consumerWaiting' = Upd(consumerWaiting, s, FALSE)
          /\ UNCHANGED <<pending, pc, exit>>
       \/ /\ ctxCancelled[s]
          /\ pc' = Upd(pc, s, "deferErr")
          /\ exit' = Upd(exit, s, "cancel")
          /\ UNCHANGED <<delivered, consumerWaiting, pending>>
       \/ /\ ~consumerWaiting[s]
          /\ ~ctxCancelled[s]
          /\ pc' = Upd(pc, s, "parked")
          /\ UNCHANGED <<delivered, consumerWaiting, pending, exit>>
    /\ UNCHANGED <<subs, connClosed, subOpts, subRet, subRpc, frames, streamEnd,
                   abortErr, nrecv, recvErr, ctxCancelled, errBuf, errSent, errSeen,
                   errClosed, msgClosed>>
    /\ UNCHANGED <<pubVars, cliVars, cfgVars, msgVars>>

\* a select with a default case: with no case ready the message is dropped
SelectEvalDropping(s) ==
    /\ s \in subs
    /\ pc[s] = "select"
    /\ \/ /\ consumerWaiting[s]
          /\ delivered' = Upd(delivered, s, Append(delivered[s], pending[s]))
          /\ consumerWaiting' = Upd(consumerWaiting, s, FALSE)
          /\ pending' = Upd(pending, s, NoMsg)
          /\ pc' = Upd(pc, s, "recv")
          /\ UNCHANGED exit
       \/ /\ ctxCancelled[s]
          /\ pc' = Upd(pc, s, "deferErr")
          /\ exit' = Upd(exit, s, "cancel")
          /\ UNCHANGED <<delivered, consumerWaiting, pending>>
       \/ /\ ~consumerWaiting[s]
          /\ ~ctxCancelled[s]
          /\ pending' = Upd(pending, s, NoMsg)
          /\ pc' = Upd(pc, s, "recv")
          /\ UNCHANGED <<delivered, consumerWaiting, exit>>
    /\ UNCHANGED <<subs, connClosed, subOpts, subRet, subRpc, frames, streamEnd,
                   abortErr, nrecv, recvErr, ctxCancelled, errBuf, errSent, errSeen,
                   errClosed, msgClosed>>
    /\ UNCHANGED <<pubVars, cliVars, cfgVars, msgVars>>

\* the select statement when the pump reaches it: a ready case is taken, one of
\* them at random when both are ready; with none ready the pump parks
\* a pump that hands its message to the message channel of the first call
SelectEvalShared(s) ==
    /\ s \in subs
    /\ pc[s] = "select"
    /\ \/ /\ consumerWaiting[1]
          /\ delivered' = Upd(delivered, 1, Append(delivered[1], pending[s]))
          /\ consumerWaiting' = Upd(consumerWaiting, 1, FALSE)
          /\ pending' = Upd(pending, s, NoMsg)
          /\ pc' = Upd(pc, s, "recv")
          /\ UNCHANGED exit
       \/ /\ ctxCancelled[s]
          /\ pc' = Upd(pc, s, "deferErr")
          /\ exit' = Upd(exit, s, "cancel")
          /\ UNCHANGED <<delivered, consumerWaiting, pending>>
       \/ /\ ~consumerWaiting[1]
          /\ ~ctxCancelled[s]
          /\ pc' = Upd(pc, s, "parked")
          /\ UNCHANGED <<delivered, consumerWaiting, pending, exit>>
    /\ UNCHANGED <<subs, connClosed, subOpts, subRet, subRpc, frames, streamEnd, abortErr,
                   nrecv, recvErr, ctxCancelled, errBuf, errSent, errSeen,
                   errClosed, msgClosed>>
    /\ UNCHANGED <<pubVars, cliVars, cfgVars, msgVars>>

SelectEval(s) ==
    /\ s \in subs
    /\ pc[s] = "select"
    /\ \/ /\ consumerWaiting[s]
          /\ delivered' = Upd(delivered, s, Append(delivered[s], pending[s]))
          /\ consumerWaiting' = Upd(consumerWaiting, s, FALSE)
          /\ pending' = Upd(pending, s, NoMsg)
          /\ pc' = Upd(pc, s, "recv")
          /\ UNCHANGED exit
       \/ /\ ctxCancelled[s]
          /\ pc' = Upd(pc, s, "deferErr")
          /\ exit' = Upd(exit, s, "cancel")
          /\ UNCHANGED <<delivered, consumerWaiting, pending>>
       \/ /\ ~consumerWaiting[s]
          /\ ~ctxCancelled[s]
          /\ pc' = Upd(pc, s, "parked")
          /\ UNCHANGED <<delivered, consumerWaiting, pending, exit>>
    /\ UNCHANGED <<subs, connClosed, subOpts, subRet, subRpc, frames, streamEnd, abortErr,
                   nrecv, recvErr, ctxCancelled, errBuf, errSent, errSeen,
                   errClosed, msgClosed>>
    /\ UNCHANGED <<pubVars, cliVars, cfgVars, msgVars>>

\* a pump that, woken by the cancellation, forces the hand-off before it returns
SelectWakeForcing(s) ==
    /\ s \in subs
    /\ pc[s] = "parked"
    /\ ctxCancelled[s]
    /\ delivered' = Upd(delivered, s, Append(delivered[s], pending[s]))
    /\ pc' = Upd(pc, s, "deferErr")
    /\ exit' = Upd(exit, s, "cancel")
    /\ UNCHANGED <<subs, connClosed, subOpts, subRet, subRpc, frames, streamEnd,
                   abortErr, nrecv, recvErr, pending, consumerWaiting, ctxCancelled,
                   errBuf, errSent, errSeen, errClosed, msgClosed>>
    /\ UNCHANGED <<pubVars, cliVars, cfgVars, msgVars>>

\* a pump blocked in a plain send, which the cancellation does not wake
SelectWakeNever(s) ==
    /\ s \in subs
    /\ FALSE
    /\ UNCHANGED vars

\* case <-ctx.Done() of the parked select: closing Done wakes the pump
SelectWake(s) ==
    /\ s \in subs
    /\ pc[s] = "parked"
    /\ ctxCancelled[s]
    /\ pc' = Upd(pc, s, "deferErr")
    /\ exit' = Upd(exit, s, "cancel")
    /\ UNCHANGED <<subs, connClosed, subOpts, subRet, subRpc, frames, streamEnd, abortErr,
                   nrecv, recvErr, pending, consumerWaiting, delivered,
                   ctxCancelled, errBuf, errSent, errSeen, errClosed, msgClosed>>
    /\ UNCHANGED <<pubVars, cliVars, cfgVars, msgVars>>

\* a pump that leaves the error channel open when it returns
CloseErrorChanSkipped(s) ==
    /\ s \in subs
    /\ pc[s] = "deferErr"
    /\ pc' = Upd(pc, s, "deferMsg")
    /\ UNCHANGED <<subs, connClosed, subOpts, subRet, subRpc, frames, streamEnd, abortErr,
                   nrecv, recvErr, pending, exit, consumerWaiting, delivered,
                   ctxCancelled, errBuf, errSent, errSeen, errClosed, msgClosed>>
    /\ UNCHANGED <<pubVars, cliVars, cfgVars, msgVars>>

\* defer close(errorChan): registered last, run first
CloseErrorChan(s) ==
    /\ s \in subs
    /\ pc[s] = "deferErr"
    /\ errClosed' = Upd(errClosed, s, errClosed[s] + 1)
    /\ pc' = Upd(pc, s, "deferMsg")
    /\ UNCHANGED <<subs, connClosed, subOpts, subRet, subRpc, frames, streamEnd, abortErr,
                   nrecv, recvErr, pending, exit, consumerWaiting, delivered,
                   ctxCancelled, errBuf, errSent, errSeen, msgClosed>>
    /\ UNCHANGED <<pubVars, cliVars, cfgVars, msgVars>>

\* defer close(messageChan): a consumer blocked in the receive is released
CloseMessageChan(s) ==
    /\ s \in subs
    /\ pc[s] = "deferMsg"
    /\ msgClosed' = Upd(msgClosed, s, msgClosed[s] + 1)
    /\ consumerWaiting' = Upd(consumerWaiting, s, FALSE)
    /\ pc' = Upd(pc, s, "done")
    /\ UNCHANGED <<subs, connClosed, subOpts, subRet, subRpc, frames, streamEnd, abortErr,
                   nrecv, recvErr, pending, exit, delivered, ctxCancelled, errBuf,
                   errSent, errSeen, errClosed>>
    /\ UNCHANGED <<pubVars, cliVars, cfgVars, msgVars>>

Pump(s) ==
    \/ Recv(s)
    \/ SendErr(s)
    \/ SelectEval(s)
    \/ SelectWake(s)
    \/ CloseErrorChan(s)
    \/ CloseMessageChan(s)

-----------------------------------------------------------------------------
(* Sub: the server, the transport, the caller and the consumer *)

\* the server pushes one more frame on the stream
ServerEmit(s) ==
    /\ s \in subs
    /\ InLoop(s)
    /\ streamEnd[s] = Nil
    /\ Len(frames[s]) < MaxFrames
    /\ \E f \in FrameInputs(Len(frames[s]) + 1) :
          frames' = Upd(frames, s, Append(frames[s], f))
    /\ UNCHANGED <<subs, connClosed, subOpts, subRet, subRpc, streamEnd, abortErr, pc, nrecv,
                   recvErr, pending, exit, consumerWaiting, delivered, ctxCancelled,
                   errBuf, errSent, errSeen, errClosed, msgClosed>>
    /\ UNCHANGED <<pubVars, cliVars, cfgVars, msgVars>>

\* the server ends the stream, cleanly or with a failure
ServerEnd(s) ==
    /\ s \in subs
    /\ InLoop(s)
    /\ streamEnd[s] = Nil
    /\ \E e \in {EOF} \cup TransportFailures : streamEnd' = Upd(streamEnd, s, e)
    /\ UNCHANGED <<subs, connClosed, subOpts, subRet, subRpc, frames, abortErr, pc, nrecv,
                   recvErr, pending, exit, consumerWaiting, delivered, ctxCancelled,
                   errBuf, errSent, errSeen, errClosed, msgClosed>>
    /\ UNCHANGED <<pubVars, cliVars, cfgVars, msgVars>>

\* the transport tears the stream down once the context of the RPC is cancelled
\* or the connection is closed: Recv then returns its error
TransportAbort(s) ==
    /\ s \in subs
    /\ InLoop(s)
    /\ abortErr[s] = Nil
    /\ ctxCancelled[s] \/ connClosed
    /\ abortErr' = Upd(abortErr, s, AbortError(ctxCancelled[s]))
    /\ UNCHANGED <<subs, connClosed, subOpts, subRet, subRpc, frames, streamEnd, pc, nrecv,
                   recvErr, pending, exit, consumerWaiting, delivered, ctxCancelled,
                   errBuf, errSent, errSeen, errClosed, msgClosed>>
    /\ UNCHANGED <<pubVars, cliVars, cfgVars, msgVars>>

\* a caller that closes the message channel itself when it cancels
CancelClosing(s) ==
    /\ s \in subs
    /\ pc[s] # "none"
    /\ ~ctxCancelled[s]
    /\ ctxCancelled' = Upd(ctxCancelled, s, TRUE)
    /\ msgClosed' = Upd(msgClosed, s, msgClosed[s] + 1)
    /\ UNCHANGED <<subs, connClosed, subOpts, subRet, subRpc, frames, streamEnd, abortErr, pc,
                   nrecv, recvErr, pending, exit, consumerWaiting, delivered,
                   errBuf, errSent, errSeen, errClosed>>
    /\ UNCHANGED <<pubVars, cliVars, cfgVars, msgVars>>

\* the caller cancels the context it passed to Sub (or its deadline passes)
Cancel(s) ==
    /\ s \in subs
    /\ pc[s] # "none"
    /\ ~ctxCancelled[s]
    /\ ctxCancelled' = Upd(ctxCancelled, s, TRUE)
    /\ UNCHANGED <<subs, connClosed, subOpts, subRet, subRpc, frames, streamEnd, abortErr, pc,
                   nrecv, recvErr, pending, exit, consumerWaiting, delivered,
                   errBuf, errSent, errSeen, errClosed, msgClosed>>
    /\ UNCHANGED <<pubVars, cliVars, cfgVars, msgVars>>

\* the consumer executes <-messageChan: it takes the message of a pump parked in
\* the select, or blocks until the pump reaches the select or closes the channel
ConsumerRecv(s) ==
    /\ s \in subs
    /\ pc[s] # "none"
    /\ msgClosed[s] = 0
    /\ ~consumerWaiting[s]
    /\ \/ /\ pc[s] = "parked"
          /\ ~ctxCancelled[s]
          /\ delivered' = Upd(delivered, s, Append(delivered[s], pending[s]))
          /\ pending' = Upd(pending, s, NoMsg)
          /\ pc' = Upd(pc, s, "recv")
          /\ UNCHANGED consumerWaiting
       \/ /\ ~(pc[s] = "parked" /\ ~ctxCancelled[s])
          /\ consumerWaiting' = Upd(consumerWaiting, s, TRUE)
          /\ UNCHANGED <<delivered, pending, pc>>
    /\ UNCHANGED <<subs, connClosed, subOpts, subRet, subRpc, frames, streamEnd, abortErr,
                   nrecv, recvErr, exit, ctxCancelled, errBuf, errSent, errSeen,
                   errClosed, msgClosed>>
    /\ UNCHANGED <<pubVars, cliVars, cfgVars, msgVars>>

\* the consumer takes a value from errorChan
ConsumerRecvErr(s) ==
    /\ s \in subs
    /\ Len(errBuf[s]) > 0
    /\ errSeen' = Upd(errSeen, s, Append(errSeen[s], Head(errBuf[s])))
    /\ errBuf' = Upd(errBuf, s, Tail(errBuf[s]))
    /\ UNCHANGED <<subs, connClosed, subOpts, subRet, subRpc, frames, streamEnd, abortErr, pc,
                   nrecv, recvErr, pending, exit, consumerWaiting, delivered,
                   ctxCancelled, errSent, errClosed, msgClosed>>
    /\ UNCHANGED <<pubVars, cliVars, cfgVars, msgVars>>

\* Client.Close: c.conn.Close()
Close ==
    /\ ~connClosed
    /\ connClosed' = TRUE
    /\ UNCHANGED <<subs, subOpts, subRet, subRpc, frames, streamEnd, abortErr, pc, nrecv,
                   recvErr, pending, exit, consumerWaiting, delivered, ctxCancelled,
                   errBuf, errSent, errSeen, errClosed, msgClosed>>
    /\ UNCHANGED <<pubVars, cliVars, cfgVars, msgVars>>

-----------------------------------------------------------------------------
(* Pub: the call, the producer feeding its input channel, and the server *)

\* a WithVariables that adds the given pairs to the ones the message has
WithVariablesMerge(m, v) ==
    [m EXCEPT !.Variables =
        MapOf({p \in @.kv : \A q \in v.kv : q[1] # p[1]} \cup v.kv)]

WithVariables(m, v) == [m EXCEPT !.Variables = v]

WithPostpone(m, postpone) == [m EXCEPT !.Postpone = postpone]

WithRetention(m, retention) == [m EXCEPT !.Retention = retention]

\* messages a producer puts on the input channel
MsgInputs ==
    {NewMessage("orders", <<1>>),
     NewMessage("", <<2>>),
     WithRetention(WithPostpone(
         WithVariables(NewMessage("events", <<3>>), MapOf({<<"priority", "high">>})),
         60), 3600)}

\* the count a server acknowledges: the requests it received on the stream
ServerAck(reqs) == Len(reqs)

NilResponse == [nil |-> TRUE]

\* no publish call with a whole slice was made
NoBatch == [via |-> "none"]

PubResponse(n) == [nil |-> FALSE, MessagesReceived |-> n]

\* the producer puts a message on the input channel
ProducerSend(m) ==
    /\ ~inClosed
    /\ pubPc # "done"
    /\ Len(drawn) + Len(inChan) < MaxMsgs
    /\ inChan' = Append(inChan, m)
    /\ UNCHANGED <<pubPc, inClosed, drawn, pubRpc, sent, halfClosed, pubRet,
                   pubOps, pubBatch, pubCtxCancelled>>
    /\ UNCHANGED <<subVars, cliVars, cfgVars, msgVars>>

\* the producer closes the input channel
ProducerClose ==
    /\ ~inClosed
    /\ pubPc # "done"
    /\ inClosed' = TRUE
    /\ UNCHANGED <<pubPc, inChan, drawn, pubRpc, sent, halfClosed, pubRet,
                   pubOps, pubBatch, pubCtxCancelled>>
    /\ UNCHANGED <<subVars, cliVars, cfgVars, msgVars>>

\* Pub up to its loop: the authenticated context and the stream
PubCall(openErr) ==
    /\ pubPc = "idle"
    /\ ~connClosed
    /\ pubRpc' = [method |-> "PubMessage", ctx |-> contextWithAuth(Background)]
    /\ pubOps' = Append(pubOps, [op |-> "PubMessage",
                                  ctx |-> contextWithAuth(Background), err |-> openErr])
    /\ IF openErr # Nil
       THEN /\ pubRet' = [returned |-> TRUE, resp |-> NilResponse,
                          err |-> WrapGRPCError(openErr,
                                      "failed to create publish stream")]
            /\ pubPc' = "done"
       ELSE /\ pubPc' = "range"
            /\ UNCHANGED pubRet
    /\ UNCHANGED <<inChan, inClosed, drawn, sent, halfClosed, pubBatch, pubCtxCancelled>>
    /\ UNCHANGED <<subVars, cliVars, cfgVars, msgVars>>

\* a loop that skips a message without topic and goes on with the next
PubDrawSkipInvalid ==
    /\ pubPc = "range"
    /\ inChan # <<>>
    /\ LET msg == Head(inChan) IN
       /\ inChan' = Tail(inChan)
       /\ drawn' = Append(drawn, msg)
       /\ pubPc' = IF msg.Topic = "" THEN "range" ELSE "send"
    /\ UNCHANGED <<inClosed, pubRpc, sent, halfClosed, pubRet, pubOps, pubBatch,
                   pubCtxCancelled>>
    /\ UNCHANGED <<subVars, cliVars, cfgVars, msgVars>>

\* a loop that passes every message to Send without looking at its topic
PubDrawUnchecked ==
    /\ pubPc = "range"
    /\ inChan # <<>>
    /\ inChan' = Tail(inChan)
    /\ drawn' = Append(drawn, Head(inChan))
    /\ pubPc' = "send"
    /\ UNCHANGED <<inClosed, pubRpc, sent, halfClosed, pubRet, pubOps, pubBatch,
                   pubCtxCancelled>>
    /\ UNCHANGED <<subVars, cliVars, cfgVars, msgVars>>

\* one iteration of for msg := range messages, up to the call of stream.Send:
\* the receive from the channel and the topic check
PubDraw ==
    /\ pubPc = "range"
    /\ inChan # <<>>
    /\ LET msg == Head(inChan) IN
       /\ inChan' = Tail(inChan)
       /\ drawn' = Append(drawn, msg)
       /\ IF msg = NilMessage
          THEN /\ pubRet' = Panicked
               /\ pubPc' = "done"
          ELSE
          IF msg.Topic = ""
          THEN /\ pubRet' = [returned |-> TRUE, resp |-> NilResponse,
                             err |-> NewError(ErrCodeValidation,
                                              "message topic is required", Nil)]
               /\ pubPc' = "done"
          ELSE /\ pubPc' = "send"
               /\ UNCHANGED pubRet
    /\ UNCHANGED <<inClosed, pubRpc, sent, halfClosed, pubOps, pubBatch,
                   pubCtxCancelled>>
    /\ UNCHANGED <<subVars, cliVars, cfgVars, msgVars>>

\* the message Pub holds: the one it drew last
PubMsg == drawn[Len(drawn)]

\* a loop that goes on with the next message after a failed Send
PubSendIgnoreErr(sendErr) ==
    /\ pubPc = "send"
    /\ pubOps' = Append(pubOps, [op |-> "Send", req |-> toPubRequest(PubMsg),
                                 err |-> sendErr])
    /\ sent' = IF sendErr # Nil THEN sent ELSE Append(sent, toPubRequest(PubMsg))
    /\ pubPc' = "range"
    /\ UNCHANGED <<inChan, inClosed, drawn, pubRpc, halfClosed, pubRet, pubBatch,
                   pubCtxCancelled>>
    /\ UNCHANGED <<subVars, cliVars, cfgVars, msgVars>>

\* stream.Send(msg.toPubRequest()) returns: with an error Pub returns it
\* translated, without one the loop goes on
PubSend(sendErr) ==
    /\ pubPc = "send"
    /\ pubOps' = Append(pubOps, [op |-> "Send", req |-> toPubRequest(PubMsg),
                                 err |-> sendErr])
    /\ IF sendErr # Nil
       THEN /\ pubRet' = [returned |-> TRUE, resp |-> NilResponse,
                          err |-> WrapGRPCError(sendErr, "failed to send message")]
            /\ pubPc' = "done"
            /\ UNCHANGED sent
       ELSE /\ sent' = Append(sent, toPubRequest(PubMsg))
            /\ pubPc' = "range"
            /\ UNCHANGED pubRet
    /\ UNCHANGED <<inChan, inClosed, drawn, pubRpc, halfClosed, pubBatch,
                   pubCtxCancelled>>
    /\ UNCHANGED <<subVars, cliVars, cfgVars, msgVars>>

\* a range loop that also ends when the context is cancelled
PubLoopExitOnCancel == inChan = <<>> /\ (inClosed \/ pubCtxCancelled)

\* for msg := range messages ends when the channel is closed and drained
PubLoopExit == inChan = <<>> /\ inClosed

\* a CloseAndRecv whose response is dropped for an empty PubResponse
PubCloseAndRecvZero(ackErr) ==
    /\ pubPc = "range"
    /\ PubLoopExit
    /\ halfClosed' = TRUE
    /\ pubOps' = Append(pubOps, [op |-> "CloseAndRecv", err |-> ackErr])
    /\ pubRet' = IF ackErr # Nil
                 THEN [returned |-> TRUE, resp |-> NilResponse,
                       err |-> WrapGRPCError(ackErr,
                                   "failed to receive publish response")]
                 ELSE [returned |-> TRUE, resp |-> PubResponse(0), err |-> Nil]
    /\ pubPc' = "done"
    /\ UNCHANGED <<inChan, inClosed, drawn, pubRpc, sent, pubBatch, pubCtxCancelled>>
    /\ UNCHANGED <<subVars, cliVars, cfgVars, msgVars>>

\* the loop ends on the closed, drained channel: stream.CloseAndRecv()
PubCloseAndRecv(ackErr) ==
    /\ pubPc = "range"
    /\ PubLoopExit
    /\ halfClosed' = TRUE
    /\ pubOps' = Append(pubOps, [op |-> "CloseAndRecv", err |-> ackErr])
    /\ pubRet' = IF ackErr # Nil
                 THEN [returned |-> TRUE, resp |-> NilResponse,
                       err |-> WrapGRPCError(ackErr,
                                   "failed to receive publish response")]
                 ELSE [returned |-> TRUE, resp |-> PubResponse(ServerAck(sent)),
                       err |-> Nil]
    /\ pubPc' = "done"
    /\ UNCHANGED <<inChan, inClosed, drawn, pubRpc, sent, pubBatch, pubCtxCancelled>>
    /\ UNCHANGED <<subVars, cliVars, cfgVars, msgVars>>

\* the caller cancels the context it passed to Pub, while Pub waits for a
\* message or is inside stream.Send
PubCancel ==
    /\ pubPc \in {"range", "send"}
    /\ ~pubCtxCancelled
    /\ pubCtxCancelled' = TRUE
    /\ UNCHANGED <<pubPc, inChan, inClosed, drawn, pubRpc, sent, halfClosed, pubRet,
                   pubOps, pubBatch>>
    /\ UNCHANGED <<subVars, cliVars, cfgVars, msgVars>>

\* what a transport operation of Pub returns: success or a failure, among them
\* the cancellation once the context is cancelled
PubTransportResults ==
    {Nil} \cup TransportFailures
    \cup (IF pubCtxCancelled THEN {AbortError(TRUE)} ELSE {})

-----------------------------------------------------------------------------
(* PubBatch, and Pub on a channel the caller filled and closed beforehand *)

RECURSIVE SeqsUpTo(_, _)
\* the sequences over S of length at most n
SeqsUpTo(S, n) ==
    IF n = 0 THEN {<<>>}
    ELSE LET shorter == SeqsUpTo(S, n - 1) IN
         shorter \cup {Append(q, x) : q \in shorter, x \in S}

\* the slices a publish call is given
BatchInputs == SeqsUpTo(MsgInputs, MaxMsgs)

\* an unbuffered channel
BatchChanCapUnbuffered(messages) == 0

\* make(chan *Message, len(messages))
BatchChanCap(messages) == Len(messages)

\* PubBatch up to its loop: the buffered channel
PubBatchMake(messages) ==
    /\ pubPc = "idle"
    /\ pubBatch = NoBatch
    /\ inChan = <<>>
    /\ ~inClosed
    /\ pubBatch' = [via |-> "PubBatch", msgs |-> messages]
    /\ pubPc' = "fill"
    /\ UNCHANGED <<inChan, inClosed, drawn, pubRpc, sent, halfClosed, pubRet, pubOps,
                   pubCtxCancelled>>
    /\ UNCHANGED <<subVars, cliVars, cfgVars, msgVars>>

\* msgChan <- msg for the next message of the slice; the send blocks on a full
\* channel, which nobody receives from yet
PubBatchFill ==
    /\ pubPc = "fill"
    /\ Len(inChan) < Len(pubBatch.msgs)
    /\ Len(inChan) < BatchChanCap(pubBatch.msgs)
    /\ inChan' = Append(inChan, pubBatch.msgs[Len(inChan) + 1])
    /\ UNCHANGED <<pubPc, inClosed, drawn, pubRpc, sent, halfClosed, pubRet, pubOps,
                   pubBatch, pubCtxCancelled>>
    /\ UNCHANGED <<subVars, cliVars, cfgVars, msgVars>>

\* close(msgChan), then return c.Pub(ctx, msgChan)
PubBatchClose ==
    /\ pubPc = "fill"
    /\ Len(inChan) = Len(pubBatch.msgs)
    /\ inClosed' = TRUE
    /\ pubPc' = "idle"
    /\ UNCHANGED <<inChan, drawn, pubRpc, sent, halfClosed, pubRet, pubOps, pubBatch,
                   pubCtxCancelled>>
    /\ UNCHANGED <<subVars, cliVars, cfgVars, msgVars>>

\* the caller of Pub fills a channel with the slice and closes it before the call
PubPrefilled(messages) ==
    /\ pubPc = "idle"
    /\ pubBatch = NoBatch
    /\ inChan = <<>>
    /\ ~inClosed
    /\ pubBatch' = [via |-> "Pub", msgs |-> messages]
    /\ inChan' = messages
    /\ inClosed' = TRUE
    /\ UNCHANGED <<pubPc, drawn, pubRpc, sent, halfClosed, pubRet, pubOps,
                   pubCtxCancelled>>
    /\ UNCHANGED <<subVars, cliVars, cfgVars, msgVars>>

-----------------------------------------------------------------------------
(* Config, NewClient and CountMessages *)

\* a nil *Config
NilConfig == [nil |-> TRUE]

\* The int of MaxMessageSize has 64 bits: it is kept as the number hi of whole
\* 2^32 and the low 32 bits, which read as an int32 are lo.
Wide(hi, lo) == [hi |-> hi, lo |-> lo]

\* the int of a number that fits in 32 bits
IntVal(n) == Wide(IF n < 0 THEN 0 - 1 ELSE 0, n)

\* the conversion int32(x) of an int: the low 32 bits
\* a conversion that saturates at the largest int32
Int32Saturating(x) == IF x.hi > 0 THEN 2147483647 ELSE x.lo

Int32(x) == x.lo

\* x > 0 for an int
Positive(x) == x.hi > 0 \/ (x.hi = 0 /\ x.lo # 0)

\* a DefaultConfig that leaves the keepalive fields at their zero values
DefaultConfigUnsetKeepalive ==
    [Host |-> "q.togomq.io", Port |-> 5123, LogLevel |-> "info", Token |-> "",
     UseTLS |-> TRUE, MaxMessageSize |-> IntVal(52428800),
     InitialWindowSize |-> 128 * 1024 * 1024,
     InitialConnWindowSize |-> 128 * 1024 * 1024,
     WriteBufferSize |-> 2 * 1024 * 1024, ReadBufferSize |-> 2 * 1024 * 1024,
     KeepaliveTime |-> 0, KeepaliveTimeout |-> 0]

\* DefaultConfig(); the two durations are counted in seconds
DefaultConfig ==
    [Host |-> "q.togomq.io", Port |-> 5123, LogLevel |-> "info", Token |-> "",
     UseTLS |-> TRUE, MaxMessageSize |-> IntVal(52428800),
     InitialWindowSize |-> 128 * 1024 * 1024,
     InitialConnWindowSize |-> 128 * 1024 * 1024,
     WriteBufferSize |-> 2 * 1024 * 1024, ReadBufferSize |-> 2 * 1024 * 1024,
     KeepaliveTime |-> 60, KeepaliveTimeout |-> 20]

WithHost(c, host) == [c EXCEPT !.Host = host]
WithPort(c, port) == [c EXCEPT !.Port = port]
WithToken(c, token) == [c EXCEPT !.Token = token]
WithUseTLS(c, useTLS) == [c EXCEPT !.UseTLS = useTLS]

WithLogLevel(c, level) == [c EXCEPT !.LogLevel = level]

\* WithMaxMessageSize also sets both window sizes, to int32(size)
WithMaxMessageSize(c, size) ==
    [c EXCEPT !.MaxMessageSize = size,
              !.InitialWindowSize = Int32(size),
              !.InitialConnWindowSize = Int32(size)]

WithInitialWindowSize(c, size) == [c EXCEPT !.InitialWindowSize = size]
WithInitialConnWindowSize(c, size) == [c EXCEPT !.InitialConnWindowSize = size]
WithWriteBufferSize(c, size) == [c EXCEPT !.WriteBufferSize = size]
WithReadBufferSize(c, size) == [c EXCEPT !.ReadBufferSize = size]
WithKeepaliveTime(c, duration) == [c EXCEPT !.KeepaliveTime = duration]
WithKeepaliveTimeout(c, duration) == [c EXCEPT !.KeepaliveTimeout = duration]

\* the strings of the model that consist of white space only
WhitespaceOnly == {"", " ", "\t "}

\* strings.TrimSpace on the strings of the model, none of which has white space
\* around other characters
TrimSpace(s) == IF s \in WhitespaceOnly THEN "" ELSE s

\* the Validate of the Config without keepalive fields: it ends after the
\* buffer sizes
ValidateNoKeepalive(c) ==
    IF TrimSpace(c.Host) = "" THEN PlainErr("host cannot be empty")
    ELSE IF c.Port <= 0 \/ c.Port > 65535
    THEN PlainErr("port must be between 1 and 65535")
    ELSE IF TrimSpace(c.Token) = "" THEN PlainErr("token is required")
    ELSE IF ~Positive(c.MaxMessageSize)
    THEN PlainErr("max message size must be greater than 0")
    ELSE IF c.InitialWindowSize <= 0
    THEN PlainErr("initial window size must be greater than 0")
    ELSE IF c.InitialConnWindowSize <= 0
    THEN PlainErr("initial connection window size must be greater than 0")
    ELSE IF c.WriteBufferSize <= 0
    THEN PlainErr("write buffer size must be greater than 0")
    ELSE IF c.ReadBufferSize <= 0
    THEN PlainErr("read buffer size must be greater than 0")
    ELSE Nil

\* Validate with the token check moved ahead of the host check
ValidateTokenFirst(c) ==
    IF TrimSpace(c.Token) = "" THEN PlainErr("token is required")
    ELSE IF TrimSpace(c.Host) = "" THEN PlainErr("host cannot be empty")
    ELSE IF c.Port <= 0 \/ c.Port > 65535
    THEN PlainErr("port must be between 1 and 65535")
    ELSE ValidateNoKeepalive(c)

\* Config.Validate: the first failing check decides the error
Validate(c) ==
    IF TrimSpace(c.Host) = "" THEN PlainErr("host cannot be empty")
    ELSE IF c.Port <= 0 \/ c.Port > 65535
    THEN PlainErr("port must be between 1 and 65535")
    ELSE IF TrimSpace(c.Token) = "" THEN PlainErr("token is required")
    ELSE IF ~Positive(c.MaxMessageSize)
    THEN PlainErr("max message size must be greater than 0")
    ELSE IF c.InitialWindowSize <= 0
    THEN PlainErr("initial window size must be greater than 0")
    ELSE IF c.InitialConnWindowSize <= 0
    THEN PlainErr("initial connection window size must be greater than 0")
    ELSE IF c.WriteBufferSize <= 0
    THEN PlainErr("write buffer size must be greater than 0")
    ELSE IF c.ReadBufferSize <= 0
    THEN PlainErr("read buffer size must be greater than 0")
    ELSE IF c.KeepaliveTime <= 0
    THEN PlainErr("keepalive time must be greater than 0")
    ELSE IF c.KeepaliveTimeout <= 0
    THEN PlainErr("keepalive timeout must be greater than 0")
    ELSE Nil

\* Config.Address: fmt.Sprintf("%s:%d", c.Host, c.Port)
Address(c) ==
    c.Host \o ":" \o (IF c.Port < 0 THEN "-" \o ToString(0 - c.Port)
                      ELSE ToString(c.Port))

\* the configuration of the client whose calls are modelled
ValidConfig == WithToken(DefaultConfig, Token)

\* tokens a client is configured with
Tokens == {Token, "other-token"}

\* the numeric fields Validate checks after the token
SizeFields ==
    {"MaxMessageSize", "InitialWindowSize", "InitialConnWindowSize",
     "WriteBufferSize", "ReadBufferSize", "KeepaliveTime", "KeepaliveTimeout"}

\* the configurations NewClient is called with: nil, valid ones, and ones that
\* break one rule of Validate or two
ConfigInputs ==
    {NilConfig, DefaultConfig}
    \cup {WithToken(DefaultConfig, tok) : tok \in Tokens \cup {" "}}
    \cup {WithHost(ValidConfig, h) : h \in {"", " ", "localhost"}}
    \cup {WithPort(ValidConfig, p) : p \in {0 - 1, 0, 1, 65535, 65536}}
    \cup {[ValidConfig EXCEPT ![f] = IF f = "MaxMessageSize" THEN IntVal(v) ELSE v] :
             f \in SizeFields, v \in {0 - 1, 0, 1}}
    \cup {WithUseTLS(ValidConfig, FALSE), WithPort(DefaultConfig, 0),
          WithHost(WithPort(ValidConfig, 0), "")}

\* the failures grpc.NewClient returns
DialFailures == {PlainErr("grpc: invalid target")}

\* a nil *Client
NoClient == [nil |-> TRUE]

\* the arguments NewClient passes to grpc.NewClient
DialOf(config) ==
    [target |-> Address(config), tls |-> TRUE,
     MaxCallRecvMsgSize |-> config.MaxMessageSize,
     MaxCallSendMsgSize |-> config.MaxMessageSize,
     InitialWindowSize |-> config.InitialWindowSize,
     InitialConnWindowSize |-> config.InitialConnWindowSize,
     WriteBufferSize |-> config.WriteBufferSize,
     ReadBufferSize |-> config.ReadBufferSize,
     KeepaliveTime |-> config.KeepaliveTime,
     KeepaliveTimeout |-> config.KeepaliveTimeout,
     PermitWithoutStream |-> FALSE]

\* the Client of a successful NewClient
ClientOf(config) == [config |-> config, conn |-> "open"]

\* NewClient was not called
NotCalled == [called |-> FALSE]

\* a NewClient that connects without validating the configuration
NewClientNoValidate(config, dialErr) ==
    /\ client = NoClient
    /\ newRet = NotReturned
    /\ newArg' = config
    /\ IF config = NilConfig
       THEN /\ newRet' = [returned |-> TRUE, client |-> NoClient,
                          err |-> NewError(ErrCodeConfiguration,
                                           "config cannot be nil", Nil)]
            /\ UNCHANGED <<client, dials>>
       ELSE /\ dials' = Append(dials, DialOf(config))
            /\ IF dialErr # Nil
               THEN /\ newRet' = [returned |-> TRUE, client |-> NoClient,
                                  err |-> NewError(ErrCodeConnection,
                                              "failed to create gRPC connection",
                                              dialErr)]
                    /\ UNCHANGED client
               ELSE /\ client' = ClientOf(config)
                    /\ newRet' = [returned |-> TRUE, client |-> ClientOf(config),
                                  err |-> Nil]
    /\ UNCHANGED countLog
    /\ UNCHANGED <<subVars, pubVars, cfgVars, msgVars>>

\* NewClient(config); dialErr is what grpc.NewClient returns if it is reached
NewClient(config, dialErr) ==
    /\ client = NoClient
    /\ newRet = NotReturned
    /\ newArg' = config
    /\ IF config = NilConfig
       THEN /\ newRet' = [returned |-> TRUE, client |-> NoClient,
                          err |-> NewError(ErrCodeConfiguration,
                                           "config cannot be nil", Nil)]
            /\ UNCHANGED <<client, dials>>
       ELSE IF Validate(config) # Nil
       THEN /\ newRet' = [returned |-> TRUE, client |-> NoClient,
                          err |-> NewError(ErrCodeValidation,
                                           "invalid configuration", Validate(config))]
            /\ UNCHANGED <<client, dials>>
       ELSE /\ dials' = Append(dials, DialOf(config))
            /\ IF dialErr # Nil
               THEN /\ newRet' = [returned |-> TRUE, client |-> NoClient,
                                  err |-> NewError(ErrCodeConnection,
                                              "failed to create gRPC connection",
                                              dialErr)]
                    /\ UNCHANGED client
               ELSE /\ client' = ClientOf(config)
                    /\ newRet' = [returned |-> TRUE, client |-> ClientOf(config),
                                  err |-> Nil]
    /\ UNCHANGED countLog
    /\ UNCHANGED <<subVars, pubVars, cfgVars, msgVars>>

\* a Client built as a struct literal with a config and no connection, as the
\* validation test of CountMessages builds it
NewBareClient(config) ==
    /\ client = NoClient
    /\ newRet = NotReturned
    /\ config # NilConfig
    /\ client' = [config |-> config, conn |-> "nil"]
    /\ UNCHANGED <<newArg, newRet, dials, countLog>>
    /\ UNCHANGED <<subVars, pubVars, cfgVars, msgVars>>

\* the configs of a Client built without NewClient
BareConfigs == {WithToken(DefaultConfig, tok) : tok \in Tokens}

\* the number of CountMessages calls followed
MaxCounts == 2

\* topics CountMessages is called with
CountTopics == {"", "orders"}

\* what the CountMessages RPC answers: a count, or a failure
CountOutcomes ==
    {[err |-> Nil, count |-> n] : n \in {0, 2}}
    \cup {[err |-> e, count |-> 0] : e \in TransportFailures}

\* a CountMessages that validates the topic after the RPC
CountMessagesValidateLate(topic, outcome) ==
    /\ client # NoClient
    /\ countLog' = Append(countLog,
          IF client.conn = "nil"
          THEN [topic |-> topic, rpc |-> NoRpc, ret |-> Panicked]
          ELSE [topic |-> topic,
                rpc |-> [method |-> "CountMessages",
                         ctx |-> contextWithAuth(Background),
                         req |-> [Topic |-> topic]],
                ret |-> IF topic = ""
                        THEN [count |-> 0,
                              err |-> NewError(ErrCodeValidation,
                                          "topic is required for counting messages",
                                          Nil)]
                        ELSE IF outcome.err # Nil
                        THEN [count |-> 0,
                              err |-> WrapGRPCError(outcome.err,
                                                    "failed to count messages")]
                        ELSE [count |-> outcome.count, err |-> Nil]])
    /\ UNCHANGED <<client, newArg, newRet, dials>>
    /\ UNCHANGED <<subVars, pubVars, cfgVars, msgVars>>

\* Client.CountMessages(ctx, topic); outcome is the answer of the RPC if it is
\* issued
CountMessages(topic, outcome) ==
    /\ client # NoClient
    /\ countLog' = Append(countLog,
          IF topic = ""
          THEN [topic |-> topic, rpc |-> NoRpc,
                ret |-> [count |-> 0,
                         err |-> NewError(ErrCodeValidation,
                                     "topic is required for counting messages",
                                     Nil)]]
          ELSE IF client.conn = "nil"
          THEN [topic |-> topic, rpc |-> NoRpc, ret |-> Panicked]
          ELSE [topic |-> topic,
                rpc |-> [method |-> "CountMessages",
                         ctx |-> contextWithAuth(Background),
                         req |-> [Topic |-> topic]],
                ret |-> IF outcome.err # Nil
                        THEN [count |-> 0,
                              err |-> WrapGRPCError(outcome.err,
                                                    "failed to count messages")]
                        ELSE [count |-> outcome.count, err |-> Nil]])
    /\ UNCHANGED <<client, newArg, newRet, dials>>
    /\ UNCHANGED <<subVars, pubVars, cfgVars, msgVars>>

\* the state after a successful NewClient(config)
InitClient(config) ==
    /\ client = ClientOf(config)
    /\ newArg = config
    /\ newRet = [returned |-> TRUE, client |-> ClientOf(config), err |-> Nil]
    /\ dials = <<DialOf(config)>>
    /\ countLog = <<>>

\* the state before NewClient
InitNoClient ==
    /\ client = NoClient
    /\ newArg = NotCalled
    /\ newRet = NotReturned
    /\ dials = <<>>
    /\ countLog = <<>>

-----------------------------------------------------------------------------
(* NewConfig and its options, Validate, and the Config objects on the heap *)

\* a ConfigOption as a value: the constructor called and its argument
Opt(name, arg) == <<name, arg>>

OptName(opt) == opt[1]

OptArg(opt) == opt[2]

\* opt(c): what the closure a constructor returned does to the Config
ApplyOption(opt, c) ==
    CASE OptName(opt) = "WithHost" -> WithHost(c, OptArg(opt))
      [] OptName(opt) = "WithPort" -> WithPort(c, OptArg(opt))
      [] OptName(opt) = "WithLogLevel" -> WithLogLevel(c, OptArg(opt))
      [] OptName(opt) = "WithToken" -> WithToken(c, OptArg(opt))
      [] OptName(opt) = "WithUseTLS" -> WithUseTLS(c, OptArg(opt))
      [] OptName(opt) = "WithMaxMessageSize" -> WithMaxMessageSize(c, OptArg(opt))
      [] OptName(opt) = "WithInitialWindowSize" -> WithInitialWindowSize(c, OptArg(opt))
      [] OptName(opt) = "WithInitialConnWindowSize" ->
            WithInitialConnWindowSize(c, OptArg(opt))
      [] OptName(opt) = "WithWriteBufferSize" -> WithWriteBufferSize(c, OptArg(opt))
      [] OptName(opt) = "WithReadBufferSize" -> WithReadBufferSize(c, OptArg(opt))
      [] OptName(opt) = "WithKeepaliveTime" -> WithKeepaliveTime(c, OptArg(opt))
      [] OptName(opt) = "WithKeepaliveTimeout" -> WithKeepaliveTimeout(c, OptArg(opt))

RECURSIVE ApplyAll(_, _)
\* for _, opt := range opts { opt(cfg) }
ApplyAll(opts, c) ==
    IF opts = <<>> THEN c
    ELSE ApplyAll(Tail(opts), ApplyOption(Head(opts), c))

\* the options NewConfig is called with
OptionInputs ==
    {Opt("WithHost", h) : h \in {"", " "}}
    \cup {Opt("WithPort", p) : p \in {0, 9000, 65536}}
    \cup {Opt("WithToken", tok) : tok \in {" ", Token}}
    \cup {Opt("WithLogLevel", "debug"), Opt("WithUseTLS", FALSE)}
    \cup {Opt("WithMaxMessageSize", s) :
             s \in {IntVal(0), IntVal(1024), Wide(1, 1024), Wide(1, 0)}}
    \cup {Opt("WithInitialWindowSize", s) : s \in {0, 2048}}
    \cup {Opt("WithInitialConnWindowSize", 0 - 1), Opt("WithWriteBufferSize", 0)}
    \cup {Opt("WithReadBufferSize", 0), Opt("WithKeepaliveTime", 0),
          Opt("WithKeepaliveTimeout", 0 - 1)}

\* the number of options of a NewConfig call
MaxOpts == 3

\* the option lists NewConfig is called with
OptionLists == SeqsUpTo(OptionInputs, MaxOpts)

\* the record of a call that returned the *Config at addr
ConfigCall(fn, opts, addr) == [fn |-> fn, opts |-> opts, addr |-> addr, muts |-> <<>>]

\* DefaultConfig(): a new Config with the default values
DefaultConfigCall ==
    /\ cfgHeap' = Append(cfgHeap, DefaultConfig)
    /\ cfgCalls' = Append(cfgCalls,
                          ConfigCall("DefaultConfig", <<>>, Len(cfgHeap) + 1))
    /\ UNCHANGED <<valRet, wrapRet>>
    /\ UNCHANGED <<subVars, pubVars, cliVars, msgVars>>

\* a NewConfig that configures one shared Config and returns it to every caller
NewConfigCallShared(opts) ==
    /\ cfgHeap' = IF cfgHeap = <<>> THEN <<ApplyAll(opts, DefaultConfig)>>
                  ELSE [cfgHeap EXCEPT ![1] = ApplyAll(opts, @)]
    /\ cfgCalls' = Append(cfgCalls, ConfigCall("NewConfig", opts, 1))
    /\ UNCHANGED <<valRet, wrapRet>>
    /\ UNCHANGED <<subVars, pubVars, cliVars, msgVars>>

\* NewConfig(opts...): cfg := DefaultConfig(), then the options in order
NewConfigCall(opts) ==
    /\ cfgHeap' = Append(cfgHeap, ApplyAll(opts, DefaultConfig))
    /\ cfgCalls' = Append(cfgCalls, ConfigCall("NewConfig", opts, Len(cfgHeap) + 1))
    /\ UNCHANGED <<valRet, wrapRet>>
    /\ UNCHANGED <<subVars, pubVars, cliVars, msgVars>>

\* the caller of the i-th call changes the Config it was given, as an option does
MutateCall(i, opt) ==
    /\ i \in 1..Len(cfgCalls)
    /\ cfgHeap' = [cfgHeap EXCEPT ![cfgCalls[i].addr] = ApplyOption(opt, @)]
    /\ cfgCalls' = [cfgCalls EXCEPT ![i].muts = Append(@, opt)]
    /\ UNCHANGED <<valRet, wrapRet>>
    /\ UNCHANGED <<subVars, pubVars, cliVars, msgVars>>

\* cfg.Validate() on the Config at addr
ValidateCall(addr) ==
    /\ addr \in 1..Len(cfgHeap)
    /\ valRet' = [returned |-> TRUE, config |-> cfgHeap[addr],
                  err |-> Validate(cfgHeap[addr])]
    /\ UNCHANGED <<cfgHeap, cfgCalls, wrapRet>>
    /\ UNCHANGED <<subVars, pubVars, cliVars, msgVars>>

\* WrapGRPCError(err, context), called on its own
WrapCall(err, context) ==
    /\ wrapRet' = [returned |-> TRUE, err |-> err, context |-> context,
                   ret |-> WrapGRPCError(err, context)]
    /\ UNCHANGED <<cfgHeap, cfgCalls, valRet>>
    /\ UNCHANGED <<subVars, pubVars, cliVars, msgVars>>

\* e.Error() on a *TogoMQError
ErrorCall(e) ==
    /\ strRet' = [returned |-> TRUE, recv |-> e, ret |-> Error(e)]
    /\ UNCHANGED <<objHeap, objCalls, convRet>>
    /\ UNCHANGED <<subVars, pubVars, cliVars, cfgVars>>

-----------------------------------------------------------------------------
(* Message and SubscribeOptions objects: constructors, builders, conversions *)

\* a []byte value: nil, or a slice of bytes
NilBytes == [nil |-> TRUE, b |-> <<>>]

BytesOf(b) == [nil |-> FALSE, b |-> b]

\* the object is a Message (it has a Body), otherwise a SubscribeOptions
IsMessage(obj) == "Body" \in DOMAIN obj

\* the record of a call: the function, the address of its receiver (0 for a
\* constructor), its argument, the address it returned, the heap before it
ObjCall(fn, recv, arg, ret) ==
    [fn |-> fn, recv |-> recv, arg |-> arg, ret |-> ret, before |-> objHeap]

\* NewMessage(topic, body): &Message{...}
NewMessageCall(topic, body) ==
    /\ objHeap' = Append(objHeap, NewMessage(topic, body))
    /\ objCalls' = Append(objCalls,
                          ObjCall("NewMessage", 0, <<topic, body>>, Len(objHeap) + 1))
    /\ convRet' = NotReturned
    /\ UNCHANGED strRet
    /\ UNCHANGED <<subVars, pubVars, cliVars, cfgVars>>

\* NewSubscribeOptions(topic): &SubscribeOptions{...}
NewSubscribeOptionsCall(topic) ==
    /\ objHeap' = Append(objHeap, NewSubscribeOptions(topic))
    /\ objCalls' = Append(objCalls,
                          ObjCall("NewSubscribeOptions", 0, topic, Len(objHeap) + 1))
    /\ convRet' = NotReturned
    /\ UNCHANGED strRet
    /\ UNCHANGED <<subVars, pubVars, cliVars, cfgVars>>

\* what the body of a builder assigns
BuilderApply(fn, obj, arg) ==
    CASE fn = "WithVariables" -> WithVariables(obj, arg)
      [] fn = "WithPostpone" -> WithPostpone(obj, arg)
      [] fn = "WithRetention" -> WithRetention(obj, arg)
      [] fn = "WithBatch" -> WithBatch(obj, arg)
      [] fn = "WithSpeedPerSec" -> WithSpeedPerSec(obj, arg)

\* a builder with a value receiver: it changes a copy and returns the copy
BuilderCallCopy(fn, addr, arg) ==
    /\ objHeap' = Append(objHeap, BuilderApply(fn, objHeap[addr], arg))
    /\ objCalls' = Append(objCalls, ObjCall(fn, addr, arg, Len(objHeap) + 1))
    /\ convRet' = NotReturned
    /\ UNCHANGED strRet
    /\ UNCHANGED <<subVars, pubVars, cliVars, cfgVars>>

\* a builder on the object at addr: it assigns the field and returns its receiver
BuilderCall(fn, addr, arg) ==
    /\ objHeap' = [objHeap EXCEPT ![addr] = BuilderApply(fn, @, arg)]
    /\ objCalls' = Append(objCalls, ObjCall(fn, addr, arg, addr))
    /\ convRet' = NotReturned
    /\ UNCHANGED strRet
    /\ UNCHANGED <<subVars, pubVars, cliVars, cfgVars>>

\* the result of a conversion: the function, its input, the request or the
\* address of the Message it built, the heap before and after
ConvResult(fn, input, ret, after) ==
    [returned |-> TRUE, fn |-> fn, input |-> input, ret |-> ret,
     before |-> objHeap, after |-> after]

\* m.toPubRequest() on the Message at addr
toPubRequestCall(addr) ==
    /\ convRet' = ConvResult("toPubRequest", addr, toPubRequest(objHeap[addr]), objHeap)
    /\ UNCHANGED <<strRet, objHeap, objCalls>>
    /\ UNCHANGED <<subVars, pubVars, cliVars, cfgVars>>

\* s.toSubRequest() on the SubscribeOptions at addr
toSubRequestCall(addr) ==
    /\ convRet' = ConvResult("toSubRequest", addr, toSubRequest(objHeap[addr]), objHeap)
    /\ UNCHANGED <<strRet, objHeap, objCalls>>
    /\ UNCHANGED <<subVars, pubVars, cliVars, cfgVars>>

\* fromSubResponse(resp): &Message{...}
fromSubResponseCall(resp) ==
    /\ objHeap' = Append(objHeap, fromSubResponse(resp))
    /\ convRet' = ConvResult("fromSubResponse", resp, Len(objHeap) + 1, objHeap')
    /\ UNCHANGED <<strRet, objCalls>>
    /\ UNCHANGED <<subVars, pubVars, cliVars, cfgVars>>

-----------------------------------------------------------------------------
(* The specification of a client with one Sub call *)

\* no Config allocated, no Validate and no WrapGRPCError call made
InitCfg ==
    /\ cfgHeap = <<>>
    /\ cfgCalls = <<>>
    /\ valRet = NotReturned
    /\ wrapRet = NotReturned

\* no Error call, no Message or SubscribeOptions object, no conversion made
InitMsg ==
    /\ strRet = NotReturned
    /\ objHeap = <<>>
    /\ objCalls = <<>>
    /\ convRet = NotReturned

InitPub ==
    /\ pubPc = "idle"
    /\ inChan = <<>>
    /\ inClosed = FALSE
    /\ drawn = <<>>
    /\ pubRpc = NoRpc
    /\ sent = <<>>
    /\ halfClosed = FALSE
    /\ pubRet = NotReturned
    /\ pubOps = <<>>
    /\ pubBatch = NoBatch
    /\ pubCtxCancelled = FALSE

InitSub(ids) ==
    /\ subs = ids
    /\ connClosed = FALSE
    /\ subOpts = [s \in ids |-> NoOpts]
    /\ subRet = [s \in ids |-> NotReturned]
    /\ subRpc = [s \in ids |-> NoRpc]
    /\ frames = [s \in ids |-> <<>>]
    /\ streamEnd = [s \in ids |-> Nil]
    /\ abortErr = [s \in ids |-> Nil]
    /\ pc = [s \in ids |-> "none"]
    /\ nrecv = [s \in ids |-> 0]
    /\ recvErr = [s \in ids |-> Nil]
    /\ pending = [s \in ids |-> NoMsg]
    /\ exit = [s \in ids |-> ""]
    /\ consumerWaiting = [s \in ids |-> FALSE]
    /\ delivered = [s \in ids |-> <<>>]
    /\ ctxCancelled = [s \in ids |-> FALSE]
    /\ errBuf = [s \in ids |-> <<>>]
    /\ errSent = [s \in ids |-> <<>>]
    /\ errSeen = [s \in ids |-> <<>>]
    /\ errClosed = [s \in ids |-> 0]
    /\ msgClosed = [s \in ids |-> 0]

Init ==
    /\ InitSub({1})
    /\ InitPub
    /\ InitCfg
    /\ InitMsg
    /\ InitClient(ValidConfig)

Next ==
    \/ \E s \in SubIds, opts \in SubOptsInputs, openErr \in {Nil} \cup TransportFailures :
          SubCall(s, opts, openErr)
    \/ \E s \in SubIds : Pump(s)
    \/ \E s \in SubIds : ServerEmit(s)
    \/ \E s \in SubIds : ServerEnd(s)
    \/ \E s \in SubIds : TransportAbort(s)
    \/ \E s \in SubIds : Cancel(s)
    \/ \E s \in SubIds : ConsumerRecv(s)
    \/ \E s \in SubIds : ConsumerRecvErr(s)
    \/ Close

\* the Go scheduler runs a runnable pump goroutine, and the transport fails the
\* stream of a cancelled context or a closed connection; nothing obliges the
\* server, the caller or the consumer to act
Fairness ==
    \A s \in SubIds : WF_vars(Pump(s)) /\ WF_vars(TransportAbort(s))

Spec == Init /\ [][Next]_vars /\ Fairness

-----------------------------------------------------------------------------
(* The specification of a client with one Pub call *)

NextPub ==
    \/ \E m \in MsgInputs : ProducerSend(m)
    \/ ProducerClose
    \/ \E openErr \in {Nil} \cup TransportFailures : PubCall(openErr)
    \/ PubDraw
    \/ \E sendErr \in PubTransportResults : PubSend(sendErr)
    \/ \E ackErr \in PubTransportResults : PubCloseAndRecv(ackErr)
    \/ PubCancel

SpecPub == Init /\ [][NextPub]_vars

-----------------------------------------------------------------------------
(* The specification of a client with one publish call given a whole slice:
   PubBatch, or Pub on a closed channel filled with the slice *)

NextBatch ==
    \/ \E messages \in BatchInputs : PubBatchMake(messages)
    \/ PubBatchFill
    \/ PubBatchClose
    \/ \E messages \in BatchInputs : PubPrefilled(messages)
    \/ \E openErr \in {Nil} \cup TransportFailures : pubBatch # NoBatch /\ PubCall(openErr)
    \/ PubDraw
    \/ \E sendErr \in {Nil} \cup TransportFailures : PubSend(sendErr)
    \/ \E ackErr \in {Nil} \cup TransportFailures : PubCloseAndRecv(ackErr)

SpecBatch == Init /\ [][NextBatch]_vars

-----------------------------------------------------------------------------
(* The specification of the construction of a client and its CountMessages
   calls *)

InitNew ==
    /\ InitSub({1})
    /\ InitPub
    /\ InitCfg
    /\ InitMsg
    /\ InitNoClient

NextClient ==
    \/ \E config \in ConfigInputs, dialErr \in {Nil} \cup DialFailures :
          NewClient(config, dialErr)
    \/ \E config \in BareConfigs : NewBareClient(config)
    \/ \E topic \in CountTopics, outcome \in CountOutcomes :
          Len(countLog) < MaxCounts /\ CountMessages(topic, outcome)

SpecClient == InitNew /\ [][NextClient]_vars

-----------------------------------------------------------------------------
(* The specification of the calls of a client that issue an RPC: Sub, Pub,
   PubBatch and CountMessages, on a client constructed with one of the tokens *)

InitRpc ==
    /\ InitSub({1})
    /\ InitPub
    /\ InitCfg
    /\ InitMsg
    /\ \E tok \in Tokens : InitClient(WithToken(DefaultConfig, tok))

NextRpc ==
    \/ \E s \in SubIds, opts \in SubOptsInputs, openErr \in {Nil} \cup TransportFailures :
          SubCall(s, opts, openErr)
    \/ \E messages \in BatchInputs : PubBatchMake(messages)
    \/ PubBatchFill
    \/ PubBatchClose
    \/ \E openErr \in {Nil} \cup TransportFailures : PubCall(openErr)
    \/ \E topic \in CountTopics, outcome \in CountOutcomes :
          countLog = <<>> /\ CountMessages(topic, outcome)

SpecRpc == InitRpc /\ [][NextRpc]_vars

-----------------------------------------------------------------------------
(* The specification of two concurrent Sub calls on one client. Each call
   subscribes to its own topic, the server emits on a stream frames of the
   topic subscribed, and each stream fails with a failure of its own, so that
   a frame or an error that crosses from one call to the other shows. The
   context of the first call may be cancelled, the context of the second never
   is; a Pub call that fails to open its stream runs beside them. *)

\* the frames followed on each of the concurrent streams
MaxConcFrames == 1

\* the options of the two calls
ConcOpts(s) ==
    IF s = 1 THEN NewSubscribeOptions("orders.*") ELSE NewSubscribeOptions("events.*")

\* the topic of the frames the server emits on the stream of call s
ConcTopic(s) == IF s = 1 THEN "orders" ELSE "events"

\* how the stream of call s ends: cleanly, or with the failure of that stream
ConcEnds(s) ==
    {EOF, IF s = 1 THEN StatusErr("Unavailable", "connection refused")
          ELSE StatusErr("Unauthenticated", "invalid token")}

InitConc ==
    /\ InitSub(SubIds)
    /\ InitPub
    /\ InitCfg
    /\ InitMsg
    /\ InitClient(ValidConfig)

NextConc ==
    \/ \E s \in SubIds : SubCall(s, ConcOpts(s), Nil)
    \/ \E s \in SubIds : Pump(s)
    \/ \E s \in SubIds :
          /\ Len(frames[s]) < MaxConcFrames
          /\ ServerEmit(s)
          /\ frames'[s][Len(frames'[s])].Topic = ConcTopic(s)
    \/ \E s \in SubIds : ServerEnd(s) /\ streamEnd'[s] \in ConcEnds(s)
    \/ \E s \in SubIds : TransportAbort(s)
    \/ Cancel(1)
    \/ \E s \in SubIds : ConsumerRecv(s)
    \/ \E s \in SubIds : ConsumerRecvErr(s)
    \/ PubCall(PlainErr("unexpected EOF"))

SpecConc == InitConc /\ [][NextConc]_vars

-----------------------------------------------------------------------------
(* The specification of the calls of a client given nil pointers among their
   inputs: a nil *Message in the closed input channel of Pub or in the slice
   of PubBatch, a nil *SubscribeOptions for Sub *)

NextNil ==
    \/ \E s \in SubIds, opts \in SubOptsInputs \cup {NilOptions},
          openErr \in {Nil} \cup TransportFailures :
          SubCall(s, opts, openErr)
    \/ \E messages \in SeqsUpTo(MsgInputs \cup {NilMessage}, MaxMsgs) :
          PubBatchMake(messages)
    \/ PubBatchFill
    \/ PubBatchClose
    \/ \E messages \in SeqsUpTo(MsgInputs \cup {NilMessage}, MaxMsgs) :
          PubPrefilled(messages)
    \/ \E openErr \in {Nil} \cup TransportFailures :
          pubBatch # NoBatch /\ PubCall(openErr)
    \/ PubDraw
    \/ \E sendErr \in {Nil} \cup TransportFailures : PubSend(sendErr)
    \/ \E ackErr \in {Nil} \cup TransportFailures : PubCloseAndRecv(ackErr)
    \/ \E topic \in CountTopics, outcome \in CountOutcomes :
          countLog = <<>> /\ CountMessages(topic, outcome)

SpecNil == Init /\ [][NextNil]_vars

-----------------------------------------------------------------------------
(* The specification of one Config: built by DefaultConfig or by NewConfig
   with options, then validated *)

NextConfig ==
    \/ cfgHeap = <<>> /\ DefaultConfigCall
    \/ /\ cfgHeap = <<>>
       /\ \E opts \in OptionLists : NewConfigCall(opts)
    \/ \E addr \in 1..Len(cfgHeap) : ValidateCall(addr)

SpecConfig == Init /\ [][NextConfig]_vars

-----------------------------------------------------------------------------
(* The specification of callers that each obtain a Config and change it *)

\* at most this many DefaultConfig() and NewConfig() calls
MaxConfigs == 3

\* at most this many changes made to the Configs returned
MaxMuts == 2

\* the changes a caller makes to its Config
MutationInputs ==
    {Opt("WithHost", ""), Opt("WithPort", 9000), Opt("WithToken", Token),
     Opt("WithMaxMessageSize", IntVal(1024))}

\* the number of changes made so far
RECURSIVE MutCount(_)
MutCount(calls) ==
    IF calls = <<>> THEN 0 ELSE Len(Head(calls).muts) + MutCount(Tail(calls))

NextFresh ==
    \/ (Len(cfgCalls) < MaxConfigs /\ DefaultConfigCall)
    \/ (Len(cfgCalls) < MaxConfigs /\ NewConfigCall(<<>>))
    \/ (MutCount(cfgCalls) < MaxMuts
          /\ \E i \in 1..Len(cfgCalls) : \E opt \in MutationInputs :
                MutateCall(i, opt))
    \/ \E addr \in 1..Len(cfgHeap) : ValidateCall(addr)

SpecFresh == Init /\ [][NextFresh]_vars

-----------------------------------------------------------------------------
(* The specification of WrapGRPCError calls *)

\* the gRPC status codes an error can carry
GrpcCodes ==
    {"Canceled", "Unknown", "InvalidArgument", "DeadlineExceeded", "NotFound",
     "AlreadyExists", "PermissionDenied", "ResourceExhausted",
     "FailedPrecondition", "Aborted", "OutOfRange", "Unimplemented", "Internal",
     "Unavailable", "DataLoss", "Unauthenticated"}

\* the status messages
StatusMessages == {"", "connection refused"}

\* the errors given to WrapGRPCError: nil, errors with a status, and errors
\* without one
WrapInputs ==
    {Nil, EOF, PlainErr("some error"), PlainErr("unexpected EOF")}
        \cup {StatusErr(c, m) : c \in GrpcCodes, m \in StatusMessages}

\* the context strings the client passes
WrapContexts ==
    {"failed to create publish stream", "failed to send message",
     "failed to receive publish response", "failed to create subscribe stream",
     "failed to receive message", "failed to count messages"}

NextWrap == \E err \in WrapInputs : \E context \in WrapContexts : WrapCall(err, context)

SpecWrap == Init /\ [][NextWrap]_vars

-----------------------------------------------------------------------------
(* The specification of TogoMQError.Error calls *)

ErrCodes ==
    {ErrCodeConnection, ErrCodeAuth, ErrCodeValidation, ErrCodePublish,
     ErrCodeSubscribe, ErrCodeStream, ErrCodeConfiguration}

ErrMessages == {"connection failed", "invalid input", ""}

\* the underlying errors: none, errors of other packages, and a TogoMQError
Underlyings ==
    {Nil, EOF, PlainErr("timeout"), StatusErr("Unavailable", "connection refused"),
     NewError(ErrCodeStream, "failed to receive message", EOF)}

TogoMQErrors ==
    {NewError(c, m, u) : c \in ErrCodes, m \in ErrMessages, u \in Underlyings}

NextString == \E e \in TogoMQErrors : ErrorCall(e)

SpecString == Init /\ [][NextString]_vars

-----------------------------------------------------------------------------
(* The specification of callers that build messages and subscribe options *)

\* at most this many objects
MaxObjs == 2

\* at most this many builder calls
MaxBuilds == 2

\* the arguments NewMessage is called with
NewMessageInputs == {<<"", NilBytes>>, <<"orders", BytesOf(<<1>>)>>}

\* the topics NewSubscribeOptions is called with
BuildTopics == {"", "orders.*"}

VariablesInputs ==
    {MapNil, MapOf({<<"key1", "value1">>, <<"key2", "value2">>}),
     MapOf({<<"key2", "other">>})}

PostponeInputs == {0, 100}

RetentionInputs == {0, 3600}

BatchInputsSub == {0, 10}

SpeedInputs == {0, 100}

\* the responses handed to fromSubResponse
ResponseInputs == FrameInputs(1)

\* the builder calls made so far
Builds == {i \in 1..Len(objCalls) : objCalls[i].recv # 0}

NextBuild ==
    \/ (Len(objHeap) < MaxObjs
          /\ \E in \in NewMessageInputs : NewMessageCall(in[1], in[2]))
    \/ (Len(objHeap) < MaxObjs
          /\ \E topic \in BuildTopics : NewSubscribeOptionsCall(topic))
    \/ (Cardinality(Builds) < MaxBuilds
          /\ \E addr \in 1..Len(objHeap) :
                /\ IsMessage(objHeap[addr])
                /\ \/ \E v \in VariablesInputs : BuilderCall("WithVariables", addr, v)
                   \/ \E p \in PostponeInputs : BuilderCall("WithPostpone", addr, p)
                   \/ \E r \in RetentionInputs : BuilderCall("WithRetention", addr, r))
    \/ (Cardinality(Builds) < MaxBuilds
          /\ \E addr \in 1..Len(objHeap) :
                /\ ~IsMessage(objHeap[addr])
                /\ \/ \E b \in BatchInputsSub : BuilderCall("WithBatch", addr, b)
                   \/ \E s \in SpeedInputs : BuilderCall("WithSpeedPerSec", addr, s))

SpecBuild == Init /\ [][NextBuild]_vars

-----------------------------------------------------------------------------
(* The specification of callers that build objects and convert them *)

\* the callers chain the builders on what the constructor returned: a builder
\* is called on the newest object
NextConv ==
    \/ (Len(objHeap) < MaxObjs
          /\ \E in \in NewMessageInputs : NewMessageCall(in[1], in[2]))
    \/ (Len(objHeap) < MaxObjs /\ NewSubscribeOptionsCall("orders.*"))
    \/ (Cardinality(Builds) < MaxBuilds /\ objHeap # <<>>
          /\ IsMessage(objHeap[Len(objHeap)])
          /\ \/ \E v \in VariablesInputs :
                   BuilderCall("WithVariables", Len(objHeap), v)
             \/ BuilderCall("WithPostpone", Len(objHeap), 100)
             \/ BuilderCall("WithRetention", Len(objHeap), 3600))
    \/ (Cardinality(Builds) < MaxBuilds /\ objHeap # <<>>
          /\ ~IsMessage(objHeap[Len(objHeap)])
          /\ \/ BuilderCall("WithBatch", Len(objHeap), 10)
             \/ BuilderCall("WithSpeedPerSec", Len(objHeap), 100))
    \/ \E addr \in 1..Len(objHeap) :
          IsMessage(objHeap[addr]) /\ toPubRequestCall(addr)
    \/ \E addr \in 1..Len(objHeap) :
          ~IsMessage(objHeap[addr]) /\ toSubRequestCall(addr)
    \/ (Len(objHeap) < MaxObjs
          /\ \E resp \in ResponseInputs : fromSubResponseCall(resp))

SpecConv == Init /\ [][NextConv]_vars

-----------------------------------------------------------------------------
(* Properties of Sub *)

\* the last Recv of the pump returned a failure other than end-of-stream
RecvFailed(s) == recvErr[s] \notin {Nil, EOF}

BothClosed(s) == errClosed[s] = 1 /\ msgClosed[s] = 1

\* C1: when Recv fails with anything but end-of-stream, the pump puts exactly one
\* error on the error channel, the WrapGRPCError translation of the failure, before
\* it closes either channel; it then closes both, calls Recv no more and delivers
\* no further message.
C1_RecvFailureOneTranslatedError ==
    /\ [](\A s \in subs : RecvFailed(s) =>
            /\ Len(errSent[s]) <= 1
            /\ pc[s] \in {"sendErr", "deferErr", "deferMsg", "done"}
            /\ pc[s] \in {"deferErr", "deferMsg", "done"} =>
                  errSent[s] = <<WrapGRPCError(recvErr[s], "failed to receive message")>>
            /\ pc[s] = "sendErr" => errSent[s] = <<>> /\ errClosed[s] = 0 /\ msgClosed[s] = 0
            /\ pc[s] = "done" => BothClosed(s))
    /\ [][\A s \in subs : RecvFailed(s) =>
            /\ recvErr'[s] = recvErr[s]
            /\ nrecv'[s] = nrecv[s]
            /\ delivered'[s] = delivered[s]]_vars
    /\ \A s \in SubIds : (s \in subs /\ RecvFailed(s)) ~> (s \in subs /\ pc[s] = "done")

\* a pump that ended on a failed Recv after a delivery, its error taken by the consumer
C1_Witness ==
    \E s \in subs :
        /\ RecvFailed(s)
        /\ pc[s] = "done"
        /\ Len(delivered[s]) >= 1
        /\ errSeen[s] # <<>>
        /\ errSeen[s][1].Code = ErrCodeConnection

\* C2: when the stream ends cleanly the pump closes both channels, and no value is
\* ever placed on the error channel during the call.
C2_CleanEndNoError ==
    /\ [](\A s \in subs : recvErr[s] = EOF =>
            /\ errSent[s] = <<>>
            /\ exit[s] = "eof"
            /\ pc[s] \in {"deferErr", "deferMsg", "done"}
            /\ pc[s] = "done" => BothClosed(s))
    /\ [][\A s \in subs : recvErr[s] = EOF => errSent'[s] = <<>>]_vars
    /\ \A s \in SubIds : (s \in subs /\ recvErr[s] = EOF) ~> (s \in subs /\ pc[s] = "done")

\* a pump that ended on end-of-stream after delivering every frame
C2_Witness ==
    \E s \in subs :
        /\ recvErr[s] = EOF
        /\ pc[s] = "done"
        /\ Len(delivered[s]) = MaxFrames
        /\ BothClosed(s)

\* C3, as claimed: once the context is cancelled no message is delivered any more
\* (in particular not the one pending hand-off), and a call that ends by the
\* cancellation puts no value on the error channel and closes both channels.
C3_NoDeliveryAfterCancel ==
    /\ [][\A s \in subs : ctxCancelled[s] => delivered'[s] = delivered[s]]_vars
    /\ [](\A s \in subs : exit[s] = "cancel" =>
            errSent[s] = <<>> /\ (pc[s] = "done" => BothClosed(s)))

\* C3, amended: when the context is cancelled while the pump is blocked in the
\* hand-off with no consumer receiving, or when the select takes the cancellation
\* case, the pending message is never delivered, no message is delivered and no
\* Recv is made after the pump observed the cancellation, no value is ever placed
\* on the error channel and both channels are closed.
C3_CancelObservedStopsDelivery ==
    /\ [][\A s \in subs : (ctxCancelled[s] /\ pc[s] = "parked") =>
            /\ delivered'[s] = delivered[s]
            /\ pc'[s] \in {"parked", "deferErr"}
            /\ pc'[s] = "deferErr" => exit'[s] = "cancel"]_vars
    /\ [][\A s \in subs : exit[s] = "cancel" =>
            /\ delivered'[s] = delivered[s]
            /\ nrecv'[s] = nrecv[s]
            /\ errSent'[s] = <<>>]_vars
    /\ [](\A s \in subs : exit[s] = "cancel" =>
            /\ errSent[s] = <<>>
            /\ Len(delivered[s]) < nrecv[s]
            /\ pc[s] \in {"deferErr", "deferMsg", "done"}
            /\ pc[s] = "done" => BothClosed(s))
    /\ \A s \in SubIds : (s \in subs /\ exit[s] = "cancel") ~> (s \in subs /\ pc[s] = "done")

\* a pump that left by the cancellation case: it ended with the second frame
\* received and only the first delivered
C3_Witness ==
    \E s \in subs :
        /\ exit[s] = "cancel"
        /\ pc[s] = "done"
        /\ nrecv[s] = 2
        /\ Len(delivered[s]) = 1
        /\ BothClosed(s)

\* C4: what the consumer received on the message channel is at every moment a
\* prefix of the frames the server emitted, in order, nothing duplicated, skipped
\* or reordered.
C4_DeliveredPrefixOfEmitted ==
    \A s \in subs :
        /\ Len(delivered[s]) <= Len(frames[s])
        /\ \A i \in 1..Len(delivered[s]) :
              /\ delivered[s][i].UUID = frames[s][i].Uuid
              /\ delivered[s][i].Topic = frames[s][i].Topic
              /\ delivered[s][i].Body = frames[s][i].Body
              /\ delivered[s][i].Variables = frames[s][i].Variables

\* two frames of different topics emitted and both delivered
C4_Witness ==
    \E s \in subs :
        /\ Len(delivered[s]) = 2
        /\ delivered[s][1].Topic # delivered[s][2].Topic
        /\ delivered[s][2].UUID = Uuids[2]

\* C5: at most one value is ever sent on the error channel, the send never blocks
\* the pump, and the pump goes on to close the channel whether or not the consumer
\* reads the error.
C5_OneErrorNeverBlocks ==
    /\ [](\A s \in subs :
            /\ Len(errSent[s]) <= 1
            /\ Len(errBuf[s]) <= ErrChanCap
            /\ pc[s] = "sendErr" => ENABLED SendErr(s))
    /\ \A s \in SubIds : (s \in subs /\ pc[s] = "sendErr") ~> (s \in subs /\ errClosed[s] = 1)

\* the error still sits unread in the channel's buffer after the pump has ended
C5_Witness ==
    \E s \in subs :
        /\ pc[s] = "done"
        /\ Len(errBuf[s]) = 1
        /\ errSeen[s] = <<>>
        /\ BothClosed(s)

\* C6: the pump holds at most one received but undelivered frame: it is in Recv
\* only when every frame it received was accepted by the consumer, and while it
\* waits for the consumer it holds exactly the last frame received.
C6_AtMostOneUndelivered ==
    \A s \in subs :
        /\ nrecv[s] - Len(delivered[s]) \in {0, 1}
        /\ pc[s] = "recv" => nrecv[s] = Len(delivered[s])
        /\ pc[s] \in {"select", "parked"} =>
              /\ nrecv[s] = Len(delivered[s]) + 1
              /\ pending[s] = fromSubResponse(frames[s][nrecv[s]])
        /\ pc[s] = "parked" => ~ENABLED Recv(s)

\* the pump is stalled on the first message while the server has emitted a second
C6_Witness ==
    \E s \in subs :
        /\ pc[s] = "parked"
        /\ nrecv[s] = 1
        /\ Len(frames[s]) = 2
        /\ delivered[s] = <<>>

\* C7: once the context of a Sub call is cancelled the pump eventually terminates
\* with both channels closed, whether it was blocked handing a message to a
\* consumer that never receives again or was waiting in Recv (which the transport
\* makes return).
C7_CancelTerminatesPump ==
    \A s \in SubIds :
        (s \in subs /\ ctxCancelled[s] /\ pc[s] # "none")
            ~> (s \in subs /\ pc[s] = "done" /\ BothClosed(s))

\* a pump cancelled while blocked in the hand-off, ended with no consumer receiving
C7_Witness ==
    \E s \in subs :
        /\ ctxCancelled[s]
        /\ pc[s] = "done"
        /\ exit[s] = "cancel"
        /\ delivered[s] = <<>>
        /\ ~consumerWaiting[s]
        /\ abortErr[s] = Nil
        /\ BothClosed(s)

\* C8: after Close every in-flight pump eventually observes the teardown,
\* terminates and closes both of its channels.
C8_CloseTerminatesPumps ==
    \A s \in SubIds :
        (s \in subs /\ connClosed /\ pc[s] # "none")
            ~> (s \in subs /\ pc[s] = "done" /\ BothClosed(s))

\* C9: Sub called with an empty topic returns nil channels and a validation
\* error, having attached no metadata, opened no stream and started no pump.
C9_SubEmptyTopicRejectedLocally ==
    \A s \in subs :
        (subRet[s].returned /\ subOpts[s].Topic = "") =>
            /\ subRet[s].messageChan = NilChan
            /\ subRet[s].errorChan = NilChan
            /\ subRet[s].err = NewError(ErrCodeValidation,
                                        "topic is required for subscription", Nil)
            /\ subRpc[s] = NoRpc
            /\ pc[s] = "none"
            /\ frames[s] = <<>>
            /\ errSent[s] = <<>>

\* Sub has returned from a call with an empty topic
C9_Witness ==
    \E s \in subs :
        /\ subRet[s].returned
        /\ subOpts[s] = NewSubscribeOptions("")
        /\ subRet[s].err.Code = ErrCodeValidation

-----------------------------------------------------------------------------
(* Properties of Pub *)

\* C10: when Pub draws a message with an empty topic it returns a nil response
\* and a validation error, sends neither that message nor any after it, draws no
\* more, and never calls CloseAndRecv.
C10_PubEmptyTopicAborts ==
    \A i \in 1..Len(drawn) :
        drawn[i].Topic = "" =>
            /\ i = Len(drawn)
            /\ pubPc = "done"
            /\ pubRet = [returned |-> TRUE, resp |-> NilResponse,
                         err |-> NewError(ErrCodeValidation,
                                          "message topic is required", Nil)]
            /\ Len(sent) = i - 1
            /\ \A j \in 1..Len(sent) : sent[j] = toPubRequest(drawn[j])
            /\ ~halfClosed

\* Pub aborted on an empty topic after one send, a further message left in the
\* closed input channel
C10_Witness ==
    /\ Len(drawn) = 2
    /\ drawn[2].Topic = ""
    /\ Len(sent) = 1
    /\ Len(inChan) = 1
    /\ inChan[1].Topic # ""
    /\ inClosed
    /\ pubRet.returned

\* the Send operations Pub performed on the stream, in order
SendOps == SelectSeq(pubOps, LAMBDA o : o.op = "Send")

\* the requests handed to stream.Send, in order
SendRequests == [i \in 1..Len(SendOps) |-> SendOps[i].req]

\* the messages drawn so far that have a topic, in draw order
ValidDrawn == SelectSeq(drawn, LAMBDA m : m.Topic # "")

\* the requests of a sequence of messages
Requests(msgs) == [i \in 1..Len(msgs) |-> toPubRequest(msgs[i])]

\* the error Pub returns for a message without topic
TopicRequired == NewError(ErrCodeValidation, "message topic is required", Nil)

\* Pub's last Send returned an error
PubSendFailed ==
    /\ pubOps # <<>>
    /\ pubOps[Len(pubOps)].op = "Send"
    /\ pubOps[Len(pubOps)].err # Nil

\* the valid messages drawn so far, but for the last one when Pub is inside
\* stream.Send with it or when that Send failed
ValidHanded ==
    SubSeq(ValidDrawn, 1,
           Len(ValidDrawn) - (IF pubPc = "send" \/ PubSendFailed THEN 1 ELSE 0))

\* C11 as stated: at every point of a Pub call the requests sent on the stream
\* are exactly the requests of the valid messages drawn so far, in draw order.
C11_SentAreAllValidDrawn ==
    sent = Requests(ValidDrawn)

\* C11: at every point of a Pub call the requests sent on the stream are the
\* requests of the valid messages drawn so far, in draw order, but for the last
\* of them while Pub is inside stream.Send with it or after that Send failed:
\* inside Send Pub holds a valid message and has not returned; a failed Send
\* was tried with the last message drawn, a valid one, and Pub returns its
\* error; every Send was tried with the next valid message in draw order; when
\* Pub succeeds every drawn message was sent once; when Pub aborts on an empty
\* topic exactly the messages before the first message without topic were sent,
\* and stay sent.
C11_SentAreValidDrawnInOrder ==
    /\ sent = Requests(ValidHanded)
    /\ pubPc = "send" =>
          /\ drawn # <<>>
          /\ PubMsg.Topic # ""
          /\ ~pubRet.returned
          /\ ~PubSendFailed
          /\ SendRequests = sent
    /\ PubSendFailed =>
          /\ drawn # <<>>
          /\ PubMsg.Topic # ""
          /\ pubOps[Len(pubOps)].req = toPubRequest(PubMsg)
          /\ pubRet.returned
          /\ pubRet.err # Nil
          /\ pubRet.err # TopicRequired
          /\ SendRequests = Requests(ValidDrawn)
    /\ (pubPc # "send" /\ ~PubSendFailed) =>
          /\ sent = Requests(ValidDrawn)
          /\ SendRequests = sent
    /\ (pubRet.returned /\ pubRet.err = Nil) =>
          /\ sent = Requests(drawn)
          /\ SendRequests = sent
    /\ (pubRet.returned /\ pubRet.err = TopicRequired) =>
          /\ drawn # <<>>
          /\ drawn[Len(drawn)].Topic = ""
          /\ \A j \in 1..(Len(drawn) - 1) : drawn[j].Topic # ""
          /\ sent = Requests(SubSeq(drawn, 1, Len(drawn) - 1))
          /\ SendRequests = sent

\* Pub sent two different messages in draw order, drew a third valid one, its
\* context was cancelled and the Send of the third failed with the cancellation:
\* three valid messages drawn, two on the stream
C11_Witness ==
    /\ PubSendFailed
    /\ pubOps[Len(pubOps)].err = AbortError(TRUE)
    /\ pubRet.returned
    /\ Len(ValidDrawn) = 3
    /\ Len(sent) = 2
    /\ sent[1] # sent[2]
    /\ sent = Requests(SubSeq(drawn, 1, 2))

\* the context string Pub passes to WrapGRPCError for a failed operation
FailContext(op) ==
    CASE op = "PubMessage" -> "failed to create publish stream"
      [] op = "Send" -> "failed to send message"
      [] op = "CloseAndRecv" -> "failed to receive publish response"

\* C12: a transport operation of Pub that fails (opening the stream, a Send, the
\* final CloseAndRecv) is the last operation of the call: Pub has returned a nil
\* response and exactly the WrapGRPCError translation of that failure, so no
\* Send follows a failed Send, nothing is retried and no other error is returned.
C12_FirstTransportFailureEndsPub ==
    \A i \in 1..Len(pubOps) :
        pubOps[i].err # Nil =>
            /\ i = Len(pubOps)
            /\ pubPc = "done"
            /\ pubRet = [returned |-> TRUE, resp |-> NilResponse,
                         err |-> WrapGRPCError(pubOps[i].err,
                                               FailContext(pubOps[i].op))]

\* a Send failed after an accepted one, with a message still in the input channel
C12_Witness ==
    /\ Len(pubOps) = 3
    /\ pubOps[2].err = Nil
    /\ pubOps[3].op = "Send"
    /\ pubOps[3].err # Nil
    /\ inChan # <<>>
    /\ pubRet.returned

\* C13: PubBatch of N messages that all have a topic, when no transport
\* operation fails and the server acknowledges the number of requests it
\* received, has performed exactly N sends when it returns, and returns
\* PubResponse{MessagesReceived: N} and no error; N = 0 included.
C13_BatchCountsN ==
    ( /\ pubBatch.via = "PubBatch"
      /\ pubRet.returned
      /\ \A i \in 1..Len(pubBatch.msgs) : pubBatch.msgs[i].Topic # ""
      /\ \A i \in 1..Len(pubOps) : pubOps[i].err = Nil )
    => /\ Len(SendOps) = Len(pubBatch.msgs)
       /\ SendRequests = Requests(pubBatch.msgs)
       /\ pubRet = [returned |-> TRUE, resp |-> PubResponse(Len(pubBatch.msgs)),
                    err |-> Nil]

\* PubBatch of three valid messages returned a received-count of three
C13_Witness ==
    /\ pubBatch.via = "PubBatch"
    /\ Len(pubBatch.msgs) = 3
    /\ Len(SendOps) = 3
    /\ pubRet.returned
    /\ pubRet.err = Nil
    /\ pubRet.resp = PubResponse(3)

\* the position of the first message without topic in a slice, or one past its
\* end
FirstBad(msgs) ==
    IF \E i \in 1..Len(msgs) : msgs[i].Topic = ""
    THEN CHOOSE i \in 1..Len(msgs) :
             /\ msgs[i].Topic = ""
             /\ \A j \in 1..(i - 1) : msgs[j].Topic # ""
    ELSE Len(msgs) + 1

\* the number of transport operations of Pub on a closed channel holding msgs
\* when none fails: the stream, a Send for each message before the first one
\* without topic, and CloseAndRecv if every message has one
OpCount(msgs) ==
    IF FirstBad(msgs) <= Len(msgs) THEN FirstBad(msgs) ELSE Len(msgs) + 2

\* the j-th of these operations, with its result
OpAt(msgs, j, e) ==
    IF j = 1
    THEN [op |-> "PubMessage", ctx |-> contextWithAuth(Background), err |-> e]
    ELSE IF j <= Len(msgs) + 1
    THEN [op |-> "Send", req |-> toPubRequest(msgs[j - 1]), err |-> e]
    ELSE [op |-> "CloseAndRecv", err |-> e]

\* the transport operations of Pub on a closed channel holding msgs, when the
\* k-th operation fails with e (k = 0: none fails)
ExpectedOps(msgs, k, e) ==
    [j \in 1..(IF k = 0 THEN OpCount(msgs) ELSE k) |->
        OpAt(msgs, j, IF j = k THEN e ELSE Nil)]

\* what Pub returns then
ExpectedRet(msgs, k, e) ==
    IF k # 0
    THEN [returned |-> TRUE, resp |-> NilResponse,
          err |-> WrapGRPCError(e, FailContext(OpAt(msgs, k, e).op))]
    ELSE IF FirstBad(msgs) <= Len(msgs)
    THEN [returned |-> TRUE, resp |-> NilResponse, err |-> TopicRequired]
    ELSE [returned |-> TRUE, resp |-> PubResponse(Len(msgs)), err |-> Nil]

\* C14: for every slice, PubBatch(ctx, slice) and Pub(ctx, ch) on a closed channel
\* ch holding the slice in order perform the same transport operations and
\* return the same result, the ones the slice and the failing operation
\* determine; PubBatch enters Pub with exactly that channel, and none of its
\* sends into the channel blocks.
C14_BatchIsPubOnClosedChannel ==
    /\ pubRet.returned =>
          \E k \in 0..OpCount(pubBatch.msgs), e \in TransportFailures :
              /\ pubOps = ExpectedOps(pubBatch.msgs, k, e)
              /\ pubRet = ExpectedRet(pubBatch.msgs, k, e)
    /\ (pubBatch # NoBatch /\ pubPc = "idle") =>
          /\ inChan = pubBatch.msgs
          /\ inClosed
          /\ pubOps = <<>>
          /\ drawn = <<>>
          /\ sent = <<>>
    /\ (pubPc = "fill" /\ Len(inChan) < Len(pubBatch.msgs)) =>
          Len(inChan) < BatchChanCap(pubBatch.msgs)

\* PubBatch of a slice whose second message has no topic returned after the
\* stream and one Send
C14_Witness ==
    /\ pubBatch.via = "PubBatch"
    /\ Len(pubBatch.msgs) = 3
    /\ FirstBad(pubBatch.msgs) = 2
    /\ Len(pubOps) = 2
    /\ pubRet.returned
    /\ pubRet.err = TopicRequired

\* Pub waits in its range loop on an open, empty input channel
PubBlockedOnInput == pubPc = "range" /\ inChan = <<>> /\ ~inClosed

\* the last transport operation Pub performed
LastOp == pubOps[Len(pubOps)]

\* C15: Pub has no cancellation path of its own. A step taken while Pub waits
\* on an open, empty input channel, the cancellation of its context included,
\* leaves Pub waiting there with nothing returned and no transport operation
\* performed; and when Pub has returned, either the channel was closed and
\* drained and CloseAndRecv answered, or its last transport operation failed,
\* or the last message drawn had no topic.
C15_PubNoCancellationPath ==
    /\ [][ PubBlockedOnInput =>
              /\ pubPc' = "range"
              /\ pubRet' = pubRet
              /\ pubOps' = pubOps ]_vars
    /\ [](pubRet.returned =>
            \/ /\ LastOp.op = "CloseAndRecv"
               /\ LastOp.err = Nil
               /\ inClosed
               /\ inChan = <<>>
               /\ pubRet.err = Nil
            \/ /\ LastOp.err # Nil
               /\ pubRet.err = WrapGRPCError(LastOp.err, FailContext(LastOp.op))
            \/ /\ drawn # <<>>
               /\ drawn[Len(drawn)].Topic = ""
               /\ pubRet.err = TopicRequired)

\* Pub has sent a message and waits on the open, empty channel; its context is
\* cancelled and it has not returned
C15_Witness ==
    /\ PubBlockedOnInput
    /\ pubCtxCancelled
    /\ sent # <<>>
    /\ ~pubRet.returned

\* C16: a publish call that fails the topic check on the first message it draws
\* has performed no transport operation: no stream was opened, no RPC issued.
C16_FirstInvalidNoTransport ==
    ( /\ pubRet.returned
      /\ pubRet.err = TopicRequired
      /\ Len(drawn) = 1 )
    => /\ pubOps = <<>>
       /\ pubRpc = NoRpc

-----------------------------------------------------------------------------
(* Properties of CountMessages and NewClient *)

\* C17: a CountMessages call with an empty topic returns the count 0 and a
\* VALIDATION_ERROR and issues no RPC, on a client without connection too.
C17_CountEmptyTopicRejectedLocally ==
    \A i \in 1..Len(countLog) :
        countLog[i].topic = "" =>
            /\ countLog[i].rpc = NoRpc
            /\ countLog[i].ret =
                  [count |-> 0,
                   err |-> NewError(ErrCodeValidation,
                                    "topic is required for counting messages", Nil)]
            /\ countLog[i].ret.err.kind = "togomq"
            /\ countLog[i].ret.err.Code = ErrCodeValidation

\* a client without connection answered a CountMessages call with an empty topic
C17_Witness ==
    /\ client # NoClient
    /\ client.conn = "nil"
    /\ Len(countLog) = 1
    /\ countLog[1].topic = ""
    /\ countLog[1].ret.count = 0

\* the RPCs the calls on the client have issued
IssuedRpcs ==
    ({subRpc[s] : s \in subs} \cup {pubRpc}
        \cup {countLog[i].rpc : i \in 1..Len(countLog)}) \ {NoRpc}

\* the outgoing metadata holds the client's token under "authorization", and
\* nothing else under that key
CarriesToken(ctx) ==
    /\ <<"authorization", client.config.Token>> \in ctx.md
    /\ \A kv \in ctx.md : kv[1] = "authorization" => kv[2] = client.config.Token

\* C18: every RPC issued by Sub, Pub, PubBatch and CountMessages is issued on
\* a context whose outgoing metadata carries the token of the client's config
\* under the key "authorization".
C18_EveryRpcCarriesToken ==
    \A rpc \in IssuedRpcs :
        /\ rpc.method \in {"SubMessage", "PubMessage", "CountMessages"}
        /\ CarriesToken(rpc.ctx)

\* a client configured with the second token has issued the Sub RPC, the Pub RPC
\* of a PubBatch call, and the CountMessages RPC
C18_Witness ==
    /\ client.config.Token = "other-token"
    /\ subRpc[1] # NoRpc
    /\ pubRpc # NoRpc
    /\ pubBatch.via = "PubBatch"
    /\ countLog # <<>>
    /\ countLog[1].rpc # NoRpc

\* C19: when NewClient has returned: for a nil config it returned no client and
\* a CONFIG_ERROR, and no connection was opened; for a config that fails
\* Validate it returned no client and a VALIDATION_ERROR whose underlying error
\* is the error of Validate, and no connection was opened; and it returned a
\* client only for a config that passes Validate and whose connection was
\* created, with the arguments taken from that config.
C19_NewClientRejectsWithoutConnecting ==
    newRet.returned =>
        /\ newArg = NilConfig =>
              /\ newRet.client = NoClient
              /\ newRet.err = NewError(ErrCodeConfiguration,
                                       "config cannot be nil", Nil)
              /\ dials = <<>>
              /\ client = NoClient
        /\ (newArg # NilConfig /\ Validate(newArg) # Nil) =>
              /\ newRet.client = NoClient
              /\ newRet.err = NewError(ErrCodeValidation, "invalid configuration",
                                       Validate(newArg))
              /\ newRet.err.Err = Validate(newArg)
              /\ dials = <<>>
              /\ client = NoClient
        /\ newRet.client # NoClient =>
              /\ newArg # NilConfig
              /\ Validate(newArg) = Nil
              /\ newRet.err = Nil
              /\ dials = <<DialOf(newArg)>>
              /\ newRet.client = [config |-> newArg, conn |-> "open"]
              /\ client = newRet.client

\* NewClient rejected a config whose only fault is its port
C19_Witness ==
    /\ newRet.returned
    /\ newArg = WithPort(ValidConfig, 65536)
    /\ newRet.client = NoClient
    /\ newRet.err.Code = ErrCodeValidation
    /\ dials = <<>>

-----------------------------------------------------------------------------
(* Properties of concurrent calls *)

\* the errors the stream of call s has produced
OwnStreamErrors(s) == {streamEnd[s], abortErr[s]} \ {Nil, EOF}

\* C20: for two concurrent Sub calls on one client: the calls that returned
\* channels returned different ones; the messages delivered on the message
\* channel of a call are the first frames of that call's own stream, in order;
\* an error on the error channel of a call is the translation of a failure of
\* that call's own stream; a pump that ended did so because its own stream
\* ended or failed or its own context was cancelled; a Pub call beside them
\* returns the failure of its own stream; and the Client is the value NewClient
\* built, no field written since.
C20_ConcurrentCallsIndependent ==
    /\ \A s \in subs, t \in subs :
          (s # t /\ subRet[s].returned /\ subRet[t].returned
                 /\ subRet[s].err = Nil /\ subRet[t].err = Nil) =>
              /\ subRet[s].messageChan # subRet[t].messageChan
              /\ subRet[s].errorChan # subRet[t].errorChan
              /\ subRpc[s].req # subRpc[t].req
    /\ \A s \in subs :
          /\ Len(delivered[s]) <= Len(frames[s])
          /\ \A i \in 1..Len(delivered[s]) :
                /\ delivered[s][i] = fromSubResponse(frames[s][i])
                /\ delivered[s][i].Topic = ConcTopic(s)
          /\ \A i \in 1..Len(errSent[s]) :
                \E e \in OwnStreamErrors(s) :
                    errSent[s][i] = WrapGRPCError(e, "failed to receive message")
          /\ exit[s] = "cancel" => ctxCancelled[s]
          /\ exit[s] = "fail" => recvErr[s] \in OwnStreamErrors(s)
          /\ exit[s] = "eof" => streamEnd[s] = EOF
    /\ pubRet.returned =>
          pubRet.err = WrapGRPCError(pubOps[1].err, "failed to create publish stream")
    /\ client = ClientOf(ValidConfig)
    /\ newRet.client = client

\* the first call ended on the failure of its stream after a delivery, its error
\* on its error channel, while the second call, still running, has delivered a
\* frame of its own and has no error
C20_Witness ==
    /\ exit[1] = "fail"
    /\ pc[1] = "done"
    /\ delivered[1] # <<>>
    /\ errSent[1] # <<>>
    /\ InLoop(2)
    /\ delivered[2] # <<>>
    /\ errSent[2] = <<>>

\* C22: the connection NewClient opens uses TLS exactly when the UseTLS flag of
\* the configuration is true.
C22_TlsFollowsUseTLS ==
    \A i \in 1..Len(dials) : dials[i].tls = newArg.UseTLS

-----------------------------------------------------------------------------
(* Properties of the calls as a whole *)

\* C21: no call of Pub, PubBatch, Sub or CountMessages panics, whatever its
\* input: every failure is returned as an error value.
C21_NoCallPanics ==
    /\ pubRet # Panicked
    /\ \A s \in subs : subRet[s] # Panicked
    /\ \A i \in 1..Len(countLog) : countLog[i].ret # Panicked

-----------------------------------------------------------------------------
(* Properties of Config *)

\* every size and duration field of the Config is strictly positive
SizesPositive(c) ==
    /\ Positive(c.MaxMessageSize)
    /\ c.InitialWindowSize > 0
    /\ c.InitialConnWindowSize > 0
    /\ c.WriteBufferSize > 0
    /\ c.ReadBufferSize > 0
    /\ c.KeepaliveTime > 0
    /\ c.KeepaliveTimeout > 0

\* the string has a character that is not white space
NonBlank(s) == s \notin WhitespaceOnly

\* C23 as stated: Validate returns no error exactly when the host is not the
\* empty string, the port is in 1..65535, the token is not the empty string and
\* every size and duration field is strictly positive.
C23_ValidIffNonEmpty ==
    valRet.returned =>
        ( valRet.err = Nil <=>
            /\ valRet.config.Host # ""
            /\ valRet.config.Port \in 1..65535
            /\ valRet.config.Token # ""
            /\ SizesPositive(valRet.config) )

\* C23: Validate returns no error exactly when the host has a character that is
\* not white space, the port is in 1..65535, the token has a character that is
\* not white space, and every size and duration field is strictly positive.
C23_ValidIffNonBlank ==
    valRet.returned =>
        ( valRet.err = Nil <=>
            /\ NonBlank(valRet.config.Host)
            /\ valRet.config.Port \in 1..65535
            /\ NonBlank(valRet.config.Token)
            /\ SizesPositive(valRet.config) )

\* Validate rejected a Config whose only fault is a token of white space
C23_Witness ==
    /\ valRet.returned
    /\ valRet.config = WithToken(DefaultConfig, " ")
    /\ valRet.err = PlainErr("token is required")

\* the invariants of a Config, numbered in the order host, port, token, max
\* message size, initial window size, initial connection window size, write
\* buffer size, read buffer size, keepalive time, keepalive timeout
ConfigInvariants == 1..10

\* invariant i does not hold of the Config
Violated(i, c) ==
    CASE i = 1 -> ~NonBlank(c.Host)
      [] i = 2 -> c.Port \notin 1..65535
      [] i = 3 -> ~NonBlank(c.Token)
      [] i = 4 -> ~Positive(c.MaxMessageSize)
      [] i = 5 -> c.InitialWindowSize <= 0
      [] i = 6 -> c.InitialConnWindowSize <= 0
      [] i = 7 -> c.WriteBufferSize <= 0
      [] i = 8 -> c.ReadBufferSize <= 0
      [] i = 9 -> c.KeepaliveTime <= 0
      [] i = 10 -> c.KeepaliveTimeout <= 0

\* the message Validate has for invariant i
ViolationMessage(i) ==
    CASE i = 1 -> "host cannot be empty"
      [] i = 2 -> "port must be between 1 and 65535"
      [] i = 3 -> "token is required"
      [] i = 4 -> "max message size must be greater than 0"
      [] i = 5 -> "initial window size must be greater than 0"
      [] i = 6 -> "initial connection window size must be greater than 0"
      [] i = 7 -> "write buffer size must be greater than 0"
      [] i = 8 -> "read buffer size must be greater than 0"
      [] i = 9 -> "keepalive time must be greater than 0"
      [] i = 10 -> "keepalive timeout must be greater than 0"

\* the invariants the Config violates
Violations(c) == {i \in ConfigInvariants : Violated(i, c)}

\* C24: Validate returns exactly the message of the first violated invariant in
\* the order host, port, token, max message size, initial window size, initial
\* connection window size, write buffer size, read buffer size, keepalive time,
\* keepalive timeout; a Config violating exactly one invariant gets the message
\* of that invariant.
C24_FirstViolationDecides ==
    valRet.returned =>
        LET V == Violations(valRet.config) IN
        /\ V # {} =>
              \E i \in V : /\ \A j \in V : i <= j
                           /\ valRet.err = PlainErr(ViolationMessage(i))
        /\ \A i \in ConfigInvariants :
              V = {i} => valRet.err = PlainErr(ViolationMessage(i))

\* Validate ran on a Config that violates the port and a keepalive invariant
\* and nothing before the port, and answered with the message of the port
C24_Witness ==
    /\ valRet.returned
    /\ Violations(valRet.config) = {2, 9}
    /\ valRet.err = PlainErr("port must be between 1 and 65535")

\* the Config that Validate ran on is what the first call returned, unchanged
ValidatedFirstCall ==
    /\ valRet.returned
    /\ cfgCalls # <<>>
    /\ cfgCalls[1].muts = <<>>
    /\ valRet.config = cfgHeap[cfgCalls[1].addr]

\* C25 as stated: Validate on the Config that DefaultConfig() returns gives no
\* error.
C25_DefaultIsValid ==
    (ValidatedFirstCall /\ cfgCalls[1].fn = "DefaultConfig") =>
        valRet.err = Nil

\* C25: the Config that DefaultConfig() returns has every field but the token
\* populated, and violates the token invariant only: Validate on it returns
\* "token is required", and on that Config with a token of a character that is
\* not white space Validate returns no error.
C25_DefaultLacksOnlyToken ==
    /\ (ValidatedFirstCall /\ cfgCalls[1].fn = "DefaultConfig") =>
          /\ valRet.config.Host # "" /\ valRet.config.LogLevel # ""
          /\ valRet.config.Token = ""
          /\ Violations(valRet.config) = {3}
          /\ valRet.err = PlainErr("token is required")
    /\ (ValidatedFirstCall /\ cfgCalls[1].opts = <<Opt("WithToken", Token)>>) =>
          /\ valRet.config = WithToken(DefaultConfig, Token)
          /\ Violations(valRet.config) = {}
          /\ valRet.err = Nil

\* Validate ran on the result of DefaultConfig() and asked for the token
C25_Witness ==
    /\ ValidatedFirstCall
    /\ cfgCalls[1].fn = "DefaultConfig"
    /\ valRet.err = PlainErr("token is required")

\* C26: NewConfig() with no options returns a Config equal field for field to
\* DefaultConfig(), and every call returns a Config of its own: a Config holds
\* the defaults changed by what its own caller did to it and by nothing else.
C26_NewConfigFreshDefaults ==
    \A i \in 1..Len(cfgCalls) :
        /\ \A j \in 1..Len(cfgCalls) :
              i # j => cfgCalls[i].addr # cfgCalls[j].addr
        /\ cfgCalls[i].muts = <<>> =>
              \A f \in DOMAIN DefaultConfig :
                  cfgHeap[cfgCalls[i].addr][f] = DefaultConfig[f]
        /\ cfgHeap[cfgCalls[i].addr] = ApplyAll(cfgCalls[i].muts, DefaultConfig)

\* two NewConfig() calls were made, the caller of the first changed its Config,
\* and the Config of the second still equals the defaults
C26_Witness ==
    /\ Len(cfgCalls) >= 2
    /\ cfgCalls[1].fn = "NewConfig" /\ cfgCalls[2].fn = "NewConfig"
    /\ cfgCalls[1].muts # <<>> /\ cfgCalls[2].muts = <<>>
    /\ cfgHeap[cfgCalls[1].addr] # DefaultConfig
    /\ cfgHeap[cfgCalls[2].addr] = DefaultConfig

\* the options that write a flow-control window size
WindowWriters ==
    {"WithMaxMessageSize", "WithInitialWindowSize", "WithInitialConnWindowSize"}

\* the k-th option is WithMaxMessageSize and no later option writes a window size
LastWindowWriter(opts, k) ==
    /\ OptName(opts[k]) = "WithMaxMessageSize"
    /\ \A j \in (k + 1)..Len(opts) : OptName(opts[j]) \notin WindowWriters

\* C27 as stated: after NewConfig(..., WithMaxMessageSize(s), ...) in which no
\* later option sets a window size, MaxMessageSize, InitialWindowSize and
\* InitialConnWindowSize all equal s.
C27_MaxMessageSizeSetsWindows ==
    \A i \in 1..Len(cfgCalls) :
        (cfgCalls[i].fn = "NewConfig" /\ cfgCalls[i].muts = <<>>) =>
            \A k \in 1..Len(cfgCalls[i].opts) :
                LastWindowWriter(cfgCalls[i].opts, k) =>
                    LET s == OptArg(cfgCalls[i].opts[k])
                        c == cfgHeap[cfgCalls[i].addr]
                    IN /\ c.MaxMessageSize = s
                       /\ IntVal(c.InitialWindowSize) = s
                       /\ IntVal(c.InitialConnWindowSize) = s

\* the fields of the Config an option writes
Writes(opt) ==
    CASE OptName(opt) = "WithHost" -> {"Host"}
      [] OptName(opt) = "WithPort" -> {"Port"}
      [] OptName(opt) = "WithLogLevel" -> {"LogLevel"}
      [] OptName(opt) = "WithToken" -> {"Token"}
      [] OptName(opt) = "WithUseTLS" -> {"UseTLS"}
      [] OptName(opt) = "WithMaxMessageSize" ->
            {"MaxMessageSize", "InitialWindowSize", "InitialConnWindowSize"}
      [] OptName(opt) = "WithInitialWindowSize" -> {"InitialWindowSize"}
      [] OptName(opt) = "WithInitialConnWindowSize" -> {"InitialConnWindowSize"}
      [] OptName(opt) = "WithWriteBufferSize" -> {"WriteBufferSize"}
      [] OptName(opt) = "WithReadBufferSize" -> {"ReadBufferSize"}
      [] OptName(opt) = "WithKeepaliveTime" -> {"KeepaliveTime"}
      [] OptName(opt) = "WithKeepaliveTimeout" -> {"KeepaliveTimeout"}

\* the window sizes are int32 and the max message size an int: a window size
\* is compared with a max message size as a number
WindowFields == {"InitialWindowSize", "InitialConnWindowSize"}

FieldNumber(c, f) == IF f \in WindowFields THEN IntVal(c[f]) ELSE c[f]

\* the number an option is given for the field f it writes
GivenNumber(opt, f) ==
    IF f \in WindowFields /\ OptName(opt) # "WithMaxMessageSize"
    THEN IntVal(OptArg(opt)) ELSE OptArg(opt)

\* the options with the k-th and the one after it exchanged
Swapped(opts, k) ==
    [j \in 1..Len(opts) |->
        IF j = k THEN opts[k + 1] ELSE IF j = k + 1 THEN opts[k] ELSE opts[j]]

\* C28 as stated: NewConfig applies its options left to right on top of the
\* defaults, so a field no option writes keeps its default and a field several
\* options write ends with the value given to the last of them
\* (WithInitialWindowSize(a) then WithMaxMessageSize(b) leaves the window size
\* b, the reverse order leaves a); exchanging two adjacent options that write
\* disjoint fields does not change the result.
C28_LaterOptionWins ==
    \A i \in 1..Len(cfgCalls) :
        (cfgCalls[i].fn = "NewConfig" /\ cfgCalls[i].muts = <<>>) =>
            LET opts == cfgCalls[i].opts
                c == cfgHeap[cfgCalls[i].addr]
            IN /\ \A f \in DOMAIN DefaultConfig :
                    LET W == {k \in 1..Len(opts) : f \in Writes(opts[k])} IN
                    IF W = {} THEN c[f] = DefaultConfig[f]
                    ELSE \E k \in W :
                            /\ \A j \in W : j <= k
                            /\ FieldNumber(c, f) = GivenNumber(opts[k], f)
               /\ \A k \in 1..(Len(opts) - 1) :
                    Writes(opts[k]) \cap Writes(opts[k + 1]) = {} =>
                        ApplyAll(Swapped(opts, k), DefaultConfig) = c

\* the i-th call is a DefaultConfig() whose result nobody has changed
DefaultResult(i) ==
    /\ cfgCalls[i].fn = "DefaultConfig"
    /\ cfgCalls[i].muts = <<>>

\* C29 as stated: DefaultConfig() returns host "q.togomq.io", port 5123, log
\* level "info", an empty token, max message size 52428800, both window sizes
\* equal to the max message size (52428800), and write and read buffer sizes of
\* 262144 bytes.
C29_DefaultsWindowsEqualMax ==
    \A i \in 1..Len(cfgCalls) :
        DefaultResult(i) =>
            LET c == cfgHeap[cfgCalls[i].addr] IN
            /\ c.Host = "q.togomq.io" /\ c.Port = 5123
            /\ c.LogLevel = "info" /\ c.Token = ""
            /\ c.MaxMessageSize = IntVal(52428800)
            /\ IntVal(c.InitialWindowSize) = c.MaxMessageSize
            /\ IntVal(c.InitialConnWindowSize) = c.MaxMessageSize
            /\ c.WriteBufferSize = 262144 /\ c.ReadBufferSize = 262144

-----------------------------------------------------------------------------
(* Properties of WrapGRPCError *)

\* the categories WrapGRPCError is said never to produce
NeverWrapped == {ErrCodePublish, ErrCodeSubscribe, ErrCodeConfiguration}

\* C30: WrapGRPCError answers every error: nil gives nil; a status
\* Unauthenticated gives AUTH_ERROR, InvalidArgument VALIDATION_ERROR,
\* Unavailable CONNECTION_ERROR, every other status STREAM_ERROR, and an error
\* without a status STREAM_ERROR; the result is never PUBLISH_ERROR,
\* SUBSCRIBE_ERROR or CONFIG_ERROR.
C30_WrapIsTotalMapping ==
    wrapRet.returned =>
        LET e == wrapRet.err
            r == wrapRet.ret
        IN /\ e = Nil <=> r = Nil
           /\ e # Nil =>
                /\ r.kind = "togomq"
                /\ r.Code \notin NeverWrapped
                /\ r.Err = e
                /\ e.kind # "status" => r.Code = "STREAM_ERROR"
                /\ e.kind = "status" =>
                     /\ e.code = "Unauthenticated" => r.Code = "AUTH_ERROR"
                     /\ e.code = "InvalidArgument" => r.Code = "VALIDATION_ERROR"
                     /\ e.code = "Unavailable" => r.Code = "CONNECTION_ERROR"
                     /\ e.code \notin {"Unauthenticated", "InvalidArgument",
                                       "Unavailable"} => r.Code = "STREAM_ERROR"

\* WrapGRPCError translated a status it has no category of its own for
C30_Witness ==
    /\ wrapRet.returned
    /\ wrapRet.err = StatusErr("Internal", "connection refused")
    /\ wrapRet.ret.kind = "togomq"
    /\ wrapRet.ret.Code = "STREAM_ERROR"

\* TogoMQError.Unwrap
Unwrap(e) == e.Err

\* C31 as stated: the error WrapGRPCError produces for a non-nil input unwraps
\* to exactly the input and has a message that combines the context with the
\* message text of the input.
C31_MessageCombinesContextAndText ==
    (wrapRet.returned /\ wrapRet.err # Nil) =>
        /\ Unwrap(wrapRet.ret) = wrapRet.err
        /\ wrapRet.ret.Message = wrapRet.context \o ": " \o wrapRet.err.msg

\* C31: the error WrapGRPCError produces for a non-nil input unwraps to exactly
\* the input; for an input that carries a transport status its message is the
\* context, ": " and the message text of the status, and for an input without a
\* status its message is the context alone.
C31_CauseKeptMessageFromStatus ==
    (wrapRet.returned /\ wrapRet.err # Nil) =>
        /\ Unwrap(wrapRet.ret) = wrapRet.err
        /\ wrapRet.err.kind = "status" =>
              wrapRet.ret.Message = wrapRet.context \o ": " \o wrapRet.err.msg
        /\ wrapRet.err.kind # "status" =>
              wrapRet.ret.Message = wrapRet.context

\* WrapGRPCError translated a failed send that carries a status
C31_Witness ==
    /\ wrapRet.returned
    /\ wrapRet.err = StatusErr("Unavailable", "connection refused")
    /\ Unwrap(wrapRet.ret) = wrapRet.err
    /\ wrapRet.ret.Message = "failed to send message: connection refused"

\* C32: the string form of a TogoMQError is "[CODE] message: underlying" when an
\* underlying error is present and "[CODE] message" when it is absent, for
\* every code, message and underlying error.
C32_StringForm ==
    strRet.returned =>
        LET e == strRet.recv
            head == "[" \o e.Code \o "] " \o e.Message
        IN /\ e.Err = Nil => strRet.ret = head
           /\ e.Err = EOF => strRet.ret = head \o ": EOF"
           /\ e.Err = PlainErr("timeout") => strRet.ret = head \o ": timeout"
           /\ e.Err # Nil => strRet.ret = head \o ": " \o Error(e.Err)
           /\ e = NewError("VALIDATION_ERROR", "invalid input", Nil) =>
                strRet.ret = "[VALIDATION_ERROR] invalid input"
           /\ e = NewError("CONNECTION_ERROR", "connection failed",
                           PlainErr("timeout")) =>
                strRet.ret = "[CONNECTION_ERROR] connection failed: timeout"

\* Error() ran on an error whose underlying error is itself a TogoMQError
C32_Witness ==
    /\ strRet.returned
    /\ strRet.recv.Err = NewError(ErrCodeStream, "failed to receive message", EOF)
    /\ strRet.recv.Code = ErrCodePublish
    /\ strRet.ret =
         "[PUBLISH_ERROR] invalid input: [STREAM_ERROR] failed to receive message: EOF"

-----------------------------------------------------------------------------
(* Properties of Message and SubscribeOptions *)

\* the heap as the i-th call left it
HeapAfter(i) == IF i = Len(objCalls) THEN objHeap ELSE objCalls[i + 1].before

\* the object the i-th call returned, as the call left it
Returned(i) == HeapAfter(i)[objCalls[i].ret]

\* C33: NewMessage(topic, body) returns a new message whose Variables mapping is
\* initialized (not nil) and empty, with the given topic and body, Postpone and
\* Retention zero and UUID empty, for every topic and body, the empty topic and
\* the nil body included.
C33_NewMessageInitialized ==
    \A i \in 1..Len(objCalls) :
        objCalls[i].fn = "NewMessage" =>
            /\ objCalls[i].ret \notin 1..Len(objCalls[i].before)
            /\ ~Returned(i).Variables.nil
            /\ Returned(i).Variables.kv = {}
            /\ Returned(i).Topic = objCalls[i].arg[1]
            /\ Returned(i).Body = objCalls[i].arg[2]
            /\ Returned(i).Postpone = 0
            /\ Returned(i).Retention = 0
            /\ Returned(i).UUID = ""

\* NewMessage was called with the empty topic and a nil body
C33_Witness ==
    /\ objCalls # <<>>
    /\ objCalls[1].fn = "NewMessage"
    /\ objCalls[1].arg = <<"", NilBytes>>
    /\ Returned(1).Variables = MapOf({})

\* C34: WithVariables replaces the whole mapping: after m.WithVariables(a) and
\* then m.WithVariables(b) the variables of the message are exactly b, and no
\* pair of a remains unless b has it too.
C34_WithVariablesReplaces ==
    \A j \in 1..Len(objCalls) :
        objCalls[j].fn = "WithVariables" =>
            /\ Returned(j).Variables = objCalls[j].arg
            /\ \A i \in 1..(j - 1) :
                  (objCalls[i].fn = "WithVariables"
                      /\ objCalls[i].recv = objCalls[j].recv) =>
                      \A p \in objCalls[i].arg.kv :
                          p \in Returned(j).Variables.kv => p \in objCalls[j].arg.kv

\* WithVariables was called twice on one message, with two pairs and then with
\* one pair under a key of the first call
C34_Witness ==
    /\ Len(objCalls) = 3
    /\ objCalls[2].fn = "WithVariables" /\ objCalls[3].fn = "WithVariables"
    /\ objCalls[2].recv = objCalls[3].recv
    /\ objCalls[2].arg = MapOf({<<"key1", "value1">>, <<"key2", "value2">>})
    /\ objCalls[3].arg = MapOf({<<"key2", "other">>})
    /\ objHeap[objCalls[3].ret].Variables.kv = {<<"key2", "other">>}

\* the field a builder is for
Target(fn) ==
    CASE fn = "WithVariables" -> "Variables"
      [] fn = "WithPostpone" -> "Postpone"
      [] fn = "WithRetention" -> "Retention"
      [] fn = "WithBatch" -> "Batch"
      [] fn = "WithSpeedPerSec" -> "SpeedPerSec"

\* C35: each builder (Message.WithVariables, WithPostpone, WithRetention;
\* SubscribeOptions.WithBatch, WithSpeedPerSec) returns the object it was called
\* on, leaves its argument in the field it is for, and changes no other field
\* and no other object; so called twice, it leaves the second argument.
C35_BuildersOverwriteOneField ==
    \A j \in Builds :
        LET call == objCalls[j] IN
        /\ call.ret = call.recv
        /\ Returned(j)[Target(call.fn)] = call.arg
        /\ \A f \in DOMAIN call.before[call.recv] \ {Target(call.fn)} :
              Returned(j)[f] = call.before[call.recv][f]
        /\ \A a \in 1..Len(call.before) :
              a # call.recv => HeapAfter(j)[a] = call.before[a]

\* WithPostpone was called twice on one message, with 100 and then with 0, and
\* the message has Postpone 0
C35_Witness ==
    /\ Len(objCalls) = 3
    /\ objCalls[2].fn = "WithPostpone" /\ objCalls[2].arg = 100
    /\ objCalls[3].fn = "WithPostpone" /\ objCalls[3].arg = 0
    /\ objCalls[2].recv = objCalls[3].recv
    /\ objCalls[3].ret = objCalls[2].ret
    /\ objHeap[objCalls[3].ret].Postpone = 0

\* C36 as stated: NewSubscribeOptions(topic) returns options with the given
\* topic, Batch 1 and SpeedPerSec 0.
C36_DefaultBatchOne ==
    \A i \in 1..Len(objCalls) :
        objCalls[i].fn = "NewSubscribeOptions" =>
            /\ Returned(i).Topic = objCalls[i].arg
            /\ Returned(i).Batch = 1
            /\ Returned(i).SpeedPerSec = 0

\* C37: the wire conversions copy field for field: toPubRequest gives Topic,
\* Body, Variables, Postpone and Retention of the message; toSubRequest gives
\* Topic, Batch and SpeedPerSec of the options; fromSubResponse gives a message
\* with Topic, Uuid, Body and Variables of the response and Postpone and
\* Retention zero; none of them changes its input or any other object.
C37_ConversionsProject ==
    convRet.returned =>
        /\ convRet.fn = "toPubRequest" =>
              LET m == convRet.before[convRet.input] IN
              /\ DOMAIN convRet.ret =
                    {"Topic", "Body", "Variables", "Postpone", "Retention"}
              /\ \A f \in DOMAIN convRet.ret : convRet.ret[f] = m[f]
              /\ convRet.after = convRet.before
        /\ convRet.fn = "toSubRequest" =>
              LET o == convRet.before[convRet.input] IN
              /\ DOMAIN convRet.ret = {"Topic", "Batch", "SpeedPerSec"}
              /\ \A f \in DOMAIN convRet.ret : convRet.ret[f] = o[f]
              /\ convRet.after = convRet.before
        /\ convRet.fn = "fromSubResponse" =>
              LET m == convRet.after[convRet.ret] IN
              /\ m.Topic = convRet.input.Topic
              /\ m.UUID = convRet.input.Uuid
              /\ m.Body = convRet.input.Body
              /\ m.Variables = convRet.input.Variables
              /\ m.Postpone = 0 /\ m.Retention = 0
              /\ convRet.ret = Len(convRet.before) + 1
              /\ SubSeq(convRet.after, 1, Len(convRet.before)) = convRet.before

\* toPubRequest ran on a message that has variables and a delay
C37_Witness ==
    /\ convRet.returned
    /\ convRet.fn = "toPubRequest"
    /\ convRet.ret.Postpone = 100
    /\ convRet.ret.Variables = MapOf({<<"key2", "other">>})
    /\ convRet.ret.Topic = "orders"

-----------------------------------------------------------------------------
(* Properties of the two channels of Sub *)

\* everything sent on the error channel, split in what the consumer took and
\* what the channel still holds
ErrorChanContents(s) == errSeen[s] \o errBuf[s]

\* C38: in every Sub call the error channel is closed before the message
\* channel, and an error is put on the error channel before either is closed:
\* once the message channel is closed the error channel is closed too and holds
\* the one terminal error or nothing, and no error arrives later.
C38_ErrorChannelSettledFirst ==
    /\ [](\A s \in subs :
            /\ msgClosed[s] >= 1 => errClosed[s] >= 1
            /\ msgClosed[s] >= 1 =>
                  /\ ErrorChanContents(s) = errSent[s]
                  /\ Len(errSent[s]) <= 1
                  /\ exit[s] = "fail" <=> Len(errSent[s]) = 1)
    /\ [][\A s \in subs :
            /\ errSent'[s] # errSent[s] =>
                  errClosed[s] = 0 /\ msgClosed[s] = 0 /\ errClosed'[s] = 0
            /\ msgClosed'[s] # msgClosed[s] => errClosed[s] >= 1
            /\ msgClosed[s] >= 1 => errSent'[s] = errSent[s]]_vars

\* the consumer finds the message channel closed while the closed error channel
\* still holds the terminal error
C38_Witness ==
    \E s \in subs :
        /\ msgClosed[s] = 1 /\ errClosed[s] = 1
        /\ errSeen[s] = <<>>
        /\ Len(errBuf[s]) = 1
        /\ errBuf[s][1].kind = "togomq"

\* C39: on every exit path of the pump (end of stream, failed Recv,
\* cancellation) each of the two channels is closed exactly once, by the pump
\* running its deferred calls, and nothing is sent on a channel after it is
\* closed: no send on a closed channel and no second close can happen.
C39_ChannelsClosedOnceByPump ==
    /\ [](\A s \in subs :
            /\ errClosed[s] <= 1 /\ msgClosed[s] <= 1
            /\ pc[s] = "done" =>
                  /\ exit[s] \in {"eof", "fail", "cancel"}
                  /\ errClosed[s] = 1 /\ msgClosed[s] = 1
            /\ pc[s] = "sendErr" => errClosed[s] = 0
            /\ pc[s] \in {"select", "parked"} => msgClosed[s] = 0)
    /\ [][\A s \in subs :
            /\ errClosed'[s] # errClosed[s] =>
                  pc[s] = "deferErr" /\ pc'[s] = "deferMsg" /\ errClosed[s] = 0
            /\ msgClosed'[s] # msgClosed[s] =>
                  pc[s] = "deferMsg" /\ pc'[s] = "done" /\ msgClosed[s] = 0
            /\ errSent'[s] # errSent[s] => errClosed[s] = 0
            /\ delivered'[s] # delivered[s] => msgClosed[s] = 0]_vars

\* a pump that left on cancellation after a delivery and closed each channel once
C39_Witness ==
    \E s \in subs :
        /\ pc[s] = "done"
        /\ exit[s] = "cancel"
        /\ delivered[s] # <<>>
        /\ errClosed[s] = 1 /\ msgClosed[s] = 1

\* the size is in 1 .. 2^31 - 1
FitsInt32(size) == size.hi = 0 /\ size.lo >= 1

\* the size is above 2^31 - 1
AboveInt32(size) == size.hi > 0 \/ (size.hi = 0 /\ size.lo < 0)

\* C40: WithMaxMessageSize(size) stores size in MaxMessageSize and the low 32
\* bits of size, read as an int32, in both window sizes: for size in
\* 1 .. 2^31 - 1 the three are equal; for size above 2^31 - 1 the window sizes
\* differ from MaxMessageSize, and when they are not positive Validate rejects
\* the configuration with the message of the window size.
C40_WindowsAreTruncatedSize ==
    /\ \A i \in 1..Len(cfgCalls) :
          (cfgCalls[i].fn = "NewConfig" /\ cfgCalls[i].muts = <<>>) =>
              \A k \in 1..Len(cfgCalls[i].opts) :
                  LastWindowWriter(cfgCalls[i].opts, k) =>
                      LET size == OptArg(cfgCalls[i].opts[k])
                          c == cfgHeap[cfgCalls[i].addr]
                      IN /\ c.MaxMessageSize = size
                         /\ c.InitialWindowSize = size.lo
                         /\ c.InitialConnWindowSize = size.lo
                         /\ FitsInt32(size) =>
                               /\ IntVal(c.InitialWindowSize) = size
                               /\ IntVal(c.InitialConnWindowSize) = size
                         /\ AboveInt32(size) =>
                               /\ IntVal(c.InitialWindowSize) # size
                               /\ IntVal(c.InitialConnWindowSize) # size
    /\ (valRet.returned /\ Violations(valRet.config) \cap {1, 2, 3} = {}
            /\ AboveInt32(valRet.config.MaxMessageSize)
            /\ valRet.config.InitialWindowSize <= 0) =>
          valRet.err = PlainErr("initial window size must be greater than 0")

\* Validate rejected a configuration whose max message size 2^32 left both
\* window sizes at 0
C40_Witness ==
    /\ valRet.returned
    /\ cfgCalls # <<>>
    /\ cfgCalls[1].opts =
          <<Opt("WithToken", Token), Opt("WithMaxMessageSize", Wide(1, 0))>>
    /\ valRet.config = cfgHeap[cfgCalls[1].addr]
    /\ valRet.config.MaxMessageSize = Wide(1, 0)
    /\ valRet.config.InitialWindowSize = 0
    /\ valRet.config.InitialConnWindowSize = 0
    /\ valRet.err = PlainErr("initial window size must be greater than 0")

=============================================================================
